---- MODULE Spec2Model ----
(***************************************************************************)
(* Model of the pattern-based risk and diff-complexity analysis engine of  *)
(* pr-reviewer-action (src/analyzers/risk.js, src/analyzers/complexity.js).*)
(* Texts (file names, glob patterns, diff text) are TLA+ strings handled   *)
(* character by character; JavaScript values that may be of any type are   *)
(* records [t |-> type tag, s |-> text].                                   *)
(***************************************************************************)
EXTENDS Integers, Sequences, FiniteSets, TLC

(***************************************************************************)
(* Bounds of the model.                                                    *)
(***************************************************************************)
MaxFiles == 2
MaxCustom == 1
MaxCalls == 2
MaxSections == 3

(***************************************************************************)
(* JavaScript values.                                                      *)
(***************************************************************************)
Str(s) == [t |-> "string", s |-> s]
Undefined == [t |-> "undefined", s |-> ""]
Num(s) == [t |-> "number", s |-> s]
Obj == [t |-> "object", s |-> ""]

\* ToBoolean of a value, as used by || and by if (...)
Truthy(v) ==
  CASE v.t = "string" -> v.s # ""
    [] v.t = "undefined" -> FALSE
    [] v.t = "number" -> v.s \notin {"0", "NaN"}
    [] OTHER -> TRUE

\* a || b for a field that holds a string or nothing
OrDefault(v, default) == IF Truthy(v) THEN v.s ELSE default

(***************************************************************************)
(* Strings.                                                                *)
(***************************************************************************)
Char(s, i) == SubSeq(s, i, i)

\* s.startsWith(prefix) at the 1-based position i
StartsWithAt(s, prefix, i) ==
  /\ i + Len(prefix) - 1 <= Len(s)
  /\ SubSeq(s, i, i + Len(prefix) - 1) = prefix

StartsWith(s, prefix) == StartsWithAt(s, prefix, 1)

\* the least k in i..n with P(k), 0 when there is none (positions start at 1)
Least(i, n, P(_)) ==
  IF \E k \in i..n : P(k)
  THEN CHOOSE k \in i..n : P(k) /\ \A j \in i..(k - 1) : ~P(j)
  ELSE 0

\* the greatest k in i..n with P(k), 0 when there is none
Greatest(i, n, P(_)) ==
  LET hits == {k \in i..n : P(k)}
  IN IF hits = {} THEN 0 ELSE CHOOSE k \in hits : \A j \in hits : k >= j

\* the first position of sep in s at or after position i, 0 when there is
\* none
IndexOfFrom(s, sep, i) ==
  LET at(k) == StartsWithAt(s, sep, k)
  IN Least(i, Len(s), at)

\* s.split(sep) for a non-empty separator text
RECURSIVE Split(_, _)
Split(s, sep) ==
  LET k == IndexOfFrom(s, sep, 1)
  IN IF k = 0 THEN <<s>>
     ELSE <<SubSeq(s, 1, k - 1)>> \o Split(SubSeq(s, k + Len(sep), Len(s)), sep)

\* parts.join(sep)
RECURSIVE Join(_, _)
Join(parts, sep) ==
  IF Len(parts) = 0 THEN ""
  ELSE IF Len(parts) = 1 THEN parts[1]
  ELSE parts[1] \o sep \o Join(Tail(parts), sep)

UpperLetters == <<"A","B","C","D","E","F","G","H","I","J","K","L","M",
                  "N","O","P","Q","R","S","T","U","V","W","X","Y","Z">>
LowerLetters == <<"a","b","c","d","e","f","g","h","i","j","k","l","m",
                  "n","o","p","q","r","s","t","u","v","w","x","y","z">>
Digits == <<"0","1","2","3","4","5","6","7","8","9">>

UpperSet == {UpperLetters[k] : k \in 1..26}
LowerSet == {LowerLetters[k] : k \in 1..26}
DigitSet == {Digits[k] : k \in 1..10}

LowerChar(c) ==
  IF c \in UpperSet
  THEN LowerLetters[CHOOSE k \in 1..26 : UpperLetters[k] = c]
  ELSE c

\* s.toLowerCase()
RECURSIVE ToLowerCase(_)
ToLowerCase(s) ==
  IF Len(s) = 0 THEN "" ELSE LowerChar(Char(s, 1)) \o ToLowerCase(Tail(s))

\* \s (the white space of the texts modelled)
IsSpace(c) == c \in {" ", "\t", "\n", "\r", "\f"}

\* the characters "." does not match and ^ (with the m flag) follows
LineTerminators == {"\n", "\r"}

\* s.trim()
RECURSIVE TrimStart(_)
TrimStart(s) == IF Len(s) > 0 /\ IsSpace(Char(s, 1)) THEN TrimStart(Tail(s)) ELSE s

RECURSIVE TrimEnd(_)
TrimEnd(s) ==
  IF Len(s) > 0 /\ IsSpace(Char(s, Len(s))) THEN TrimEnd(SubSeq(s, 1, Len(s) - 1)) ELSE s

Trim(s) == TrimEnd(TrimStart(s))

Includes(s, text) == IndexOfFrom(s, text, 1) # 0

\* the last position of text in s at or before position i, 0 when there is
\* none
LastIndexOf(s, text, i) ==
  LET at(k) == StartsWithAt(s, text, k)
  IN Greatest(1, i, at)

\* path.basename(filename) for a path that does not end in "/"
Basename(filename) ==
  SubSeq(filename, LastIndexOf(filename, "/", Len(filename)) + 1, Len(filename))

\* path.extname(filename): from the last "." of the base name on, nothing
\* when there is no "." or only a leading one
Extname(filename) ==
  LET base == Basename(filename)
      dot == LastIndexOf(base, ".", Len(base))
  IN IF dot <= 1 THEN "" ELSE SubSeq(base, dot, Len(base))

(***************************************************************************)
(* minimatch(filename, pattern) with the library's default options: the    *)
(* pattern and the path are split on "/", a "**" segment matches zero or   *)
(* more path segments none of which starts with ".", "*" and "?" match     *)
(* inside one segment and not a leading ".", anything else is literal.     *)
(* A pattern that is not a string makes the library throw a TypeError.     *)
(***************************************************************************)
MinimatchThrows(pattern) == pattern.t # "string"

\* does f from position i on match the segment glob p from position j on
RECURSIVE GlobSeg(_, _, _, _)
GlobSeg(f, p, i, j) ==
  IF j > Len(p) THEN i > Len(f)
  ELSE IF Char(p, j) = "*"
       THEN GlobSeg(f, p, i, j + 1) \/ (i <= Len(f) /\ GlobSeg(f, p, i + 1, j))
       ELSE /\ i <= Len(f)
            /\ (Char(p, j) = "?" \/ Char(p, j) = Char(f, i))
            /\ GlobSeg(f, p, i + 1, j + 1)

IsDotSegment(f) == StartsWith(f, ".")

SegmentMatch(f, p) ==
  /\ (IsDotSegment(f) => ~(StartsWith(p, "*") \/ StartsWith(p, "?")))
  /\ (p = "*" => Len(f) > 0)
  /\ GlobSeg(f, p, 1, 1)

\* matchOne: the path segments fs from fi on against the pattern segments
\* ps from pi on
RECURSIVE MatchOne(_, _, _, _)
RECURSIVE GlobStar(_, _, _, _)
MatchOne(fs, ps, fi, pi) ==
  IF fi > Len(fs) \/ pi > Len(ps)
  THEN fi > Len(fs) /\ pi > Len(ps)
  ELSE IF ps[pi] = "**"
       THEN IF pi = Len(ps)
            THEN \A k \in fi..Len(fs) : ~IsDotSegment(fs[k])
            ELSE GlobStar(fs, ps, fi, pi)
       ELSE SegmentMatch(fs[fi], ps[pi]) /\ MatchOne(fs, ps, fi + 1, pi + 1)

\* the "**" at ps[pi] swallows the segments before fr
GlobStar(fs, ps, fr, pi) ==
  IF fr > Len(fs) THEN FALSE
  ELSE IF MatchOne(fs, ps, fr, pi + 1) THEN TRUE
  ELSE IF IsDotSegment(fs[fr]) THEN FALSE
  ELSE GlobStar(fs, ps, fr + 1, pi)

MinimatchString(filename, pattern) ==
  IF pattern = "" THEN filename = ""
  ELSE MatchOne(Split(filename, "/"), Split(pattern, "/"), 1, 1)


(***************************************************************************)
(* Inputs of the model.                                                    *)
(***************************************************************************)
ChangedFile(filename, status, additions, deletions) ==
  [filename |-> filename, status |-> status, additions |-> additions,
   deletions |-> deletions]

FilePool ==
  {ChangedFile(".env.production", "modified", 5, 1),
   ChangedFile("migrations/20240101_add_users.sql", "added", 50, 0),
   ChangedFile("db/report.sql", "modified", 12, 3),
   ChangedFile("vendor/config/settings.json", "added", 10, 0),
   ChangedFile("package-lock.json", "modified", 400, 380),
   ChangedFile("src/payments/checkout.js", "modified", 350, 20),
   ChangedFile("src/app.js", "modified", 300, 0),
   ChangedFile("vendor/api/client.js", "added", 350, 0)}

\* an entry of customPatterns: an object with the given properties
CustomRule(pattern, category, severity, message) ==
  [self |-> Obj, pattern |-> pattern, category |-> category,
   severity |-> severity, message |-> message]

\* an entry of customPatterns that is a bare glob string
CustomString(pattern) ==
  [self |-> Str(pattern), pattern |-> Undefined, category |-> Undefined,
   severity |-> Undefined, message |-> Undefined]

CustomPool ==
  {CustomRule(Str("**/payments/**"), Str("financial"), Str("high"), Str("Payment code")),
   CustomRule(Str("**/*.js"), Undefined, Undefined, Undefined),
   CustomRule(Str("**/*.sql"), Str("7"), Str("low"), Str("Query")),
   CustomString("**/src/**"),
   CustomRule(Undefined, Str("financial"), Str("high"), Undefined),
   CustomRule(Num("42"), Undefined, Str("high"), Undefined)}

IgnoreLists ==
  {<<>>,
   <<Str("**/vendor/**")>>,
   <<Str("docs/**"), Str("**/*.sql")>>}

\* one file section of a unified diff: header lines, one hunk, the body lines
DiffSection(oldPath, newPath, body) ==
  "diff --git a/" \o oldPath \o " b/" \o newPath \o "\n"
    \o "index 83db48f..bf269f4 100644\n"
    \o "--- a/" \o oldPath \o "\n"
    \o "+++ b/" \o newPath \o "\n"
    \o "@@ -1,3 +1,9 @@\n"
    \o body

\* eleven branches written without spaces, a console statement and a TODO
DenseBranches ==
  " function f(a, b, c) {\n"
    \o "+  if(a&&b||c)return 1\n"
    \o "+  if(a?b:c)return 2\n"
    \o "-  return 0\n"
    \o "+  if(b&&c||a)for(;;)x()\n"
    \o "+  if(c&&a)y()\n"
    \o "+  console.log(a) // TODO remove\n"
    \o " }\n"

\* eleven branches written with spaces around the operators
SpacedBranches ==
  "+if (a && b || c) {\n"
    \o "+  return a ? b : c\n"
    \o "-}\n"
    \o "+}\n"
    \o "+if (b && c || a) { x() }\n"
    \o "+if (c && a || b) { y() }\n"
    \o "+if (a) { z() }\n"

\* ten branches and a debugger statement
VendorBody ==
  "+if(a)b()\n+if(c)d()\n"
    \o "+if(a)b()\n+if(c)d()\n+if(a)b()\n+if(c)d()\n+if(a)b()\n+if(c)d()\n"
    \o "+if(a)b()\n+if(c)d()\n+debugger;\n"

\* two console statements and one TODO
RepeatedSmells == "+console.log(a)\n+console.warn(b) // TODO\n"

\* the text n times
RECURSIVE Repeated(_, _)
Repeated(text, n) == IF n = 0 THEN "" ELSE text \o Repeated(text, n - 1)

\* a switch with five labels, each on a line that ends in a colon, and a
\* comment line of 151 characters
LabelsAndLongLine ==
  "+switch (a) {\n+case 1:\n+case 2:\n+case 3:\n+case 4:\n+default:\n+}\n"
    \o "+//" \o Repeated("-", 149) \o "\n"

DiffPool ==
  {Undefined,
   Str(DiffSection("src/app.js", "src/app.js", RepeatedSmells)),
   Str(DiffSection("src/app.js", "src/app.js", LabelsAndLongLine)),
   Str(""),
   Num("42"),
   Str(DiffSection("src/app.js", "src/app.js", DenseBranches)),
   Str(DiffSection("src/payments/checkout.js", "src/payments/checkout.js", SpacedBranches)),
   Str(DiffSection("src/app.js", "src/app.js", SpacedBranches)
         \o DiffSection("vendor/api/client.js", "vendor/api/client.js", VendorBody))}

\* the sequences over S of length at most n
SeqsUpTo(S, n) == UNION {[1..k -> S] : k \in 0..n}

(***************************************************************************)
(* Plain objects used as maps ({} with obj[key] reads and writes) are      *)
(* sequences of [key, value] pairs in insertion order.  A read of a key    *)
(* the object does not own finds the properties every object inherits.     *)
(***************************************************************************)
ObjectPrototypeKeys ==
  {"constructor", "toString", "toLocaleString", "valueOf", "hasOwnProperty",
   "isPrototypeOf", "propertyIsEnumerable", "__proto__", "__defineGetter__",
   "__defineSetter__", "__lookupGetter__", "__lookupSetter__"}

HasOwn(obj, key) == \E k \in 1..Len(obj) : obj[k].key = key

OwnIndex(obj, key) == CHOOSE k \in 1..Len(obj) : obj[k].key = key

ObjGet(obj, key) == obj[OwnIndex(obj, key)].value

\* obj[key] is truthy: an own entry (the values stored are arrays or
\* non-empty texts) or an inherited property
ObjTruthy(obj, key) == HasOwn(obj, key) \/ key \in ObjectPrototypeKeys

ObjSet(obj, key, value) ==
  IF HasOwn(obj, key)
  THEN [obj EXCEPT ![OwnIndex(obj, key)].value = value]
  ELSE Append(obj, [key |-> key, value |-> value])

IsDigit(c) == c \in DigitSet

DigitValue(c) == (CHOOSE k \in 1..10 : Digits[k] = c) - 1

\* a key that is a canonical array index ("0", "7", "42"; up to 9 digits)
IsArrayIndex(key) ==
  /\ Len(key) \in 1..9
  /\ \A k \in 1..Len(key) : IsDigit(Char(key, k))
  /\ (Len(key) > 1 => Char(key, 1) # "0")

RECURSIVE IndexValue(_)
IndexValue(key) ==
  IF Len(key) = 0 THEN 0
  ELSE 10 * IndexValue(SubSeq(key, 1, Len(key) - 1)) + DigitValue(Char(key, Len(key)))

\* the index-like entries of obj in ascending numeric order
RECURSIVE SortedIndexEntries(_)
SortedIndexEntries(entries) ==
  IF Len(entries) = 0 THEN <<>>
  ELSE LET m == CHOOSE k \in 1..Len(entries) :
                  \A j \in 1..Len(entries) :
                    IndexValue(entries[k].key) <= IndexValue(entries[j].key)
       IN <<entries[m]>> \o
          SortedIndexEntries([j \in 1..(Len(entries) - 1) |->
                                IF j < m THEN entries[j] ELSE entries[j + 1]])

IsIndexEntry(e) == IsArrayIndex(e.key)
IsNameEntry(e) == ~IsArrayIndex(e.key)

\* Object.entries(obj): index-like keys first, ascending, then the other keys
\* in insertion order
ObjectEntries(obj) ==
  SortedIndexEntries(SelectSeq(obj, IsIndexEntry)) \o SelectSeq(obj, IsNameEntry)

\* Object.keys(obj)
ObjectKeys(obj) == LET es == ObjectEntries(obj) IN [k \in 1..Len(es) |-> es[k].key]

(***************************************************************************)
(* Risk analyzer, src/analyzers/risk.js                                    *)
(***************************************************************************)
DEFAULT_RISK_PATTERNS == <<
  [pattern |-> Str("**/.env*"), category |-> "security", severity |-> "high",
   message |-> "Environment configuration file"],
  [pattern |-> Str("**/secrets*"), category |-> "security", severity |-> "high",
   message |-> "Secrets file"],
  [pattern |-> Str("**/*credentials*"), category |-> "security", severity |-> "high",
   message |-> "Credentials file"],
  [pattern |-> Str("**/*password*"), category |-> "security", severity |-> "high",
   message |-> "Password-related file"],
  [pattern |-> Str("**/*.pem"), category |-> "security", severity |-> "high",
   message |-> "Private key file"],
  [pattern |-> Str("**/*.key"), category |-> "security", severity |-> "high",
   message |-> "Key file"],
  [pattern |-> Str("**/auth/**"), category |-> "security", severity |-> "high",
   message |-> "Authentication code"],
  [pattern |-> Str("**/security/**"), category |-> "security", severity |-> "high",
   message |-> "Security module"],
  [pattern |-> Str("**/migrations/**"), category |-> "database", severity |-> "high",
   message |-> "Database migration"],
  [pattern |-> Str("**/migrate/**"), category |-> "database", severity |-> "high",
   message |-> "Database migration"],
  [pattern |-> Str("**/*.sql"), category |-> "database", severity |-> "medium",
   message |-> "SQL file"],
  [pattern |-> Str("**/schema*"), category |-> "database", severity |-> "high",
   message |-> "Database schema"],
  [pattern |-> Str("**/config/**"), category |-> "config", severity |-> "medium",
   message |-> "Configuration file"],
  [pattern |-> Str("**/*.config.js"), category |-> "config", severity |-> "medium",
   message |-> "Configuration file"],
  [pattern |-> Str("**/*.config.ts"), category |-> "config", severity |-> "medium",
   message |-> "Configuration file"],
  [pattern |-> Str("**/settings.*"), category |-> "config", severity |-> "medium",
   message |-> "Settings file"],
  [pattern |-> Str("**/docker-compose*"), category |-> "config", severity |-> "medium",
   message |-> "Docker Compose configuration"],
  [pattern |-> Str("**/Dockerfile*"), category |-> "config", severity |-> "medium",
   message |-> "Dockerfile"],
  [pattern |-> Str("**/nginx*"), category |-> "config", severity |-> "medium",
   message |-> "Nginx configuration"],
  [pattern |-> Str("**/.github/workflows/**"), category |-> "ci", severity |-> "medium",
   message |-> "CI/CD workflow"],
  [pattern |-> Str("**/*.tf"), category |-> "infrastructure", severity |-> "high",
   message |-> "Terraform configuration"],
  [pattern |-> Str("**/*.tfvars"), category |-> "infrastructure", severity |-> "high",
   message |-> "Terraform variables"],
  [pattern |-> Str("**/cloudformation/**"), category |-> "infrastructure", severity |-> "high",
   message |-> "CloudFormation template"],
  [pattern |-> Str("**/k8s/**"), category |-> "infrastructure", severity |-> "high",
   message |-> "Kubernetes configuration"],
  [pattern |-> Str("**/kubernetes/**"), category |-> "infrastructure", severity |-> "high",
   message |-> "Kubernetes configuration"],
  [pattern |-> Str("**/helm/**"), category |-> "infrastructure", severity |-> "high",
   message |-> "Helm chart"],
  [pattern |-> Str("**/package.json"), category |-> "dependencies", severity |-> "medium",
   message |-> "Node.js dependencies"],
  [pattern |-> Str("**/package-lock.json"), category |-> "dependencies", severity |-> "low",
   message |-> "Node.js lockfile"],
  [pattern |-> Str("**/yarn.lock"), category |-> "dependencies", severity |-> "low",
   message |-> "Yarn lockfile"],
  [pattern |-> Str("**/requirements.txt"), category |-> "dependencies", severity |-> "medium",
   message |-> "Python dependencies"],
  [pattern |-> Str("**/Gemfile"), category |-> "dependencies", severity |-> "medium",
   message |-> "Ruby dependencies"],
  [pattern |-> Str("**/go.mod"), category |-> "dependencies", severity |-> "medium",
   message |-> "Go dependencies"],
  [pattern |-> Str("**/Cargo.toml"), category |-> "dependencies", severity |-> "medium",
   message |-> "Rust dependencies"],
  [pattern |-> Str("**/routes/**"), category |-> "api", severity |-> "medium",
   message |-> "API routes"],
  [pattern |-> Str("**/api/**"), category |-> "api", severity |-> "medium",
   message |-> "API code"],
  [pattern |-> Str("**/middleware/**"), category |-> "api", severity |-> "medium",
   message |-> "Middleware"],
  [pattern |-> Str("**/webpack*"), category |-> "build", severity |-> "medium",
   message |-> "Webpack configuration"],
  [pattern |-> Str("**/rollup*"), category |-> "build", severity |-> "medium",
   message |-> "Rollup configuration"],
  [pattern |-> Str("**/vite.config*"), category |-> "build", severity |-> "medium",
   message |-> "Vite configuration"],
  [pattern |-> Str("**/.gitlab-ci*"), category |-> "ci", severity |-> "medium",
   message |-> "GitLab CI configuration"],
  [pattern |-> Str("**/Jenkinsfile"), category |-> "ci", severity |-> "medium",
   message |-> "Jenkins pipeline"]
>>

\* minimatch(filename, pattern) for a string pattern; the results for the
\* file names and patterns of the model's inputs are tabulated once
KnownFilenames == {f.filename : f \in FilePool}

KnownPatterns ==
  {DEFAULT_RISK_PATTERNS[k].pattern.s : k \in 1..Len(DEFAULT_RISK_PATTERNS)}
    \cup {IF Truthy(p.pattern) THEN p.pattern.s ELSE p.self.s : p \in CustomPool}
    \cup UNION {{l[k].s : k \in 1..Len(l)} : l \in IgnoreLists}

MinimatchTable ==
  [f \in KnownFilenames |-> [p \in KnownPatterns |-> MinimatchString(f, p)]]

Minimatch(filename, pattern) ==
  IF filename \in KnownFilenames /\ pattern \in KnownPatterns
  THEN MinimatchTable[filename][pattern]
  ELSE MinimatchString(filename, pattern)

\* variant: a custom rule without severity is low
NormalizeCustom_LowDefault(p) ==
  [pattern |-> IF Truthy(p.pattern) THEN p.pattern ELSE p.self,
   category |-> OrDefault(p.category, "custom"),
   severity |-> OrDefault(p.severity, "low"),
   message |-> OrDefault(p.message, "Custom risk pattern")]

\* customPatterns.map(p => ({...})): self is the entry itself (a string or
\* an object), the other fields are its properties
NormalizeCustom(p) ==
  [pattern |-> IF Truthy(p.pattern) THEN p.pattern ELSE p.self,
   category |-> OrDefault(p.category, "custom"),
   severity |-> OrDefault(p.severity, "medium"),
   message |-> OrDefault(p.message, "Custom risk pattern")]

\* [...DEFAULT_RISK_PATTERNS, ...customPatterns.map(...)]
CombinePatterns(customPatterns) ==
  DEFAULT_RISK_PATTERNS \o
  [k \in 1..Len(customPatterns) |-> NormalizeCustom(customPatterns[k])]

\* variant: only the first ignore pattern is tried
IgnoreSome_FirstOnly(filename, ignorePatterns, k) ==
  IF k > Len(ignorePatterns) \/ k > 1 THEN "false"
  ELSE IF MinimatchThrows(ignorePatterns[k]) THEN "throw"
  ELSE IF Minimatch(filename, ignorePatterns[k].s) THEN "true"
  ELSE "false"

\* ignorePatterns.some(p => minimatch(filename, p)) from the k-th pattern on:
\* "true", "false", or "throw" when minimatch throws before a match
RECURSIVE IgnoreSome(_, _, _)
IgnoreSome(filename, ignorePatterns, k) ==
  IF k > Len(ignorePatterns) THEN "false"
  ELSE IF MinimatchThrows(ignorePatterns[k]) THEN "throw"
  ELSE IF Minimatch(filename, ignorePatterns[k].s) THEN "true"
  ELSE IgnoreSome(filename, ignorePatterns, k + 1)

\* patterns.filter(p => minimatch(filename, p.pattern))
FilterThrows(patterns) == \E k \in 1..Len(patterns) : MinimatchThrows(patterns[k].pattern)

MatchedPatterns(filename, patterns) ==
  LET matches(p) == Minimatch(filename, p.pattern.s)
  IN SelectSeq(patterns, matches)

\* severityOrder[s]; 0 stands for undefined, which compares false with all
severityOrder(s) ==
  CASE s = "high" -> 3
    [] s = "medium" -> 2
    [] s = "low" -> 1
    [] OTHER -> 0

SeverityGreater(a, b) ==
  severityOrder(a) # 0 /\ severityOrder(b) # 0 /\ severityOrder(a) > severityOrder(b)

RECURSIVE HighestFrom(_, _, _)
HighestFrom(patterns, k, highest) ==
  IF k > Len(patterns) THEN highest
  ELSE HighestFrom(patterns, k + 1,
                   IF SeverityGreater(patterns[k].severity, highest)
                   THEN patterns[k].severity ELSE highest)

\* variant: the last matching rule decides
getHighestSeverity_LastWins(patterns) ==
  IF Len(patterns) = 0 THEN "low" ELSE patterns[Len(patterns)].severity

getHighestSeverity(patterns) == HighestFrom(patterns, 1, "low")

\* [...new Set(values)]: first occurrences, in order
RECURSIVE Dedupe(_)
Dedupe(values) ==
  IF Len(values) = 0 THEN <<>>
  ELSE LET front == Dedupe(SubSeq(values, 1, Len(values) - 1))
           last == values[Len(values)]
       IN IF \E k \in 1..Len(front) : front[k] = last THEN front
          ELSE Append(front, last)

EmptyRiskResult ==
  [files |-> <<>>, highRiskCount |-> 0, mediumRiskCount |-> 0, lowRiskCount |-> 0,
   byCategory |-> <<>>, details |-> <<>>]

BuildRiskFile(file, matched) ==
  [filename |-> file.filename,
   status |-> file.status,
   additions |-> file.additions,
   deletions |-> file.deletions,
   severity |-> getHighestSeverity(matched),
   categories |-> Dedupe([k \in 1..Len(matched) |-> matched[k].category]),
   messages |-> [k \in 1..Len(matched) |-> matched[k].message],
   patterns |-> [k \in 1..Len(matched) |-> matched[k].pattern.s]]

\* variant: medium findings fall into the low bucket
UpdateCounts_NoMediumBucket(result, severity) ==
  IF severity = "high"
  THEN [result EXCEPT !.highRiskCount = @ + 1]
  ELSE [result EXCEPT !.lowRiskCount = @ + 1]

\* the three counters after a finding of the given severity
UpdateCounts(result, severity) ==
  IF severity = "high"
  THEN [result EXCEPT !.highRiskCount = @ + 1]
  ELSE IF severity = "medium"
       THEN [result EXCEPT !.mediumRiskCount = @ + 1]
       ELSE [result EXCEPT !.lowRiskCount = @ + 1]

\* result.byCategory[category].push(filename) fails when the slot is an
\* inherited property, which has no push
CategoryPushThrows(byCategory, categories) ==
  \E k \in 1..Len(categories) :
     ~HasOwn(byCategory, categories[k]) /\ categories[k] \in ObjectPrototypeKeys

\* variant: the file name is recorded only when the category is new
RECURSIVE UpdateByCategory_PushOnCreate(_, _, _, _)
UpdateByCategory_PushOnCreate(byCategory, categories, k, filename) ==
  IF k > Len(categories) THEN byCategory
  ELSE UpdateByCategory_PushOnCreate(
         IF ObjTruthy(byCategory, categories[k]) THEN byCategory
         ELSE ObjSet(byCategory, categories[k], <<filename>>),
         categories, k + 1, filename)

RECURSIVE UpdateByCategory(_, _, _, _)
UpdateByCategory(byCategory, categories, k, filename) ==
  IF k > Len(categories) THEN byCategory
  ELSE LET c == categories[k]
           created == IF ~ObjTruthy(byCategory, c) THEN ObjSet(byCategory, c, <<>>)
                      ELSE byCategory
       IN UpdateByCategory(ObjSet(created, c, Append(ObjGet(created, c), filename)),
                           categories, k + 1, filename)


\* getCategoryIcon(category); the icons are written by name
getCategoryIcon(category) ==
  CASE category = "security" -> "(lock)"
    [] category = "database" -> "(file-cabinet)"
    [] category = "config" -> "(gear)"
    [] category = "infrastructure" -> "(building-construction)"
    [] category = "dependencies" -> "(package)"
    [] category = "api" -> "(globe)"
    [] category = "build" -> "(wrench)"
    [] category = "ci" -> "(arrows)"
    [] category = "custom" -> "(label)"
    [] OTHER -> "(clipboard)"

\* the loop over files of analyzeRisk from the i-th file on: RiskLoop tries
\* the ignore patterns, RiskFilter filters the rules, RiskRecord builds the
\* finding and RiskPush records it
RECURSIVE RiskLoop(_, _, _, _, _)
RECURSIVE RiskFilter(_, _, _, _, _, _)
RECURSIVE RiskRecord(_, _, _, _, _, _)
RECURSIVE RiskPush(_, _, _, _, _, _)
RiskLoop(fileList, patterns, ignorePatterns, i, result) ==
  IF i > Len(fileList) THEN [threw |-> FALSE, result |-> result]
  ELSE RiskFilter(fileList, patterns, ignorePatterns, i, result,
                  IgnoreSome(fileList[i].filename, ignorePatterns, 1))

RiskFilter(fileList, patterns, ignorePatterns, i, result, ignored) ==
  IF ignored = "throw" THEN [threw |-> TRUE, result |-> result]
  ELSE IF ignored = "true"
  THEN RiskLoop(fileList, patterns, ignorePatterns, i + 1, result)
  ELSE IF FilterThrows(patterns) THEN [threw |-> TRUE, result |-> result]
  ELSE RiskRecord(fileList, patterns, ignorePatterns, i, result,
                  MatchedPatterns(fileList[i].filename, patterns))

RiskRecord(fileList, patterns, ignorePatterns, i, result, matchedPatterns) ==
  IF Len(matchedPatterns) = 0
  THEN RiskLoop(fileList, patterns, ignorePatterns, i + 1, result)
  ELSE RiskPush(fileList, patterns, ignorePatterns, i, result,
                BuildRiskFile(fileList[i], matchedPatterns))

RiskPush(fileList, patterns, ignorePatterns, i, result, riskFile) ==
  LET pushed == [result EXCEPT !.files = Append(@, riskFile)]
      counted == UpdateCounts(pushed, riskFile.severity)
  IN IF CategoryPushThrows(counted.byCategory, riskFile.categories)
     THEN [threw |-> TRUE, result |-> counted]
     ELSE RiskLoop(fileList, patterns, ignorePatterns, i + 1,
            [counted EXCEPT !.byCategory =
               UpdateByCategory(@, riskFile.categories, 1, fileList[i].filename)])

\* "Generate details" and "Category summaries"
RiskDetails(result) ==
  LET entries == ObjectEntries(result.byCategory)
  IN (IF result.highRiskCount > 0
      THEN <<"(rotating-light) " \o ToString(result.highRiskCount)
               \o " high-risk file(s) require careful review">>
      ELSE <<>>)
     \o (IF result.mediumRiskCount > 0
         THEN <<"(warning) " \o ToString(result.mediumRiskCount)
                  \o " medium-risk file(s) detected">>
         ELSE <<>>)
     \o (IF result.lowRiskCount > 0
         THEN <<"(information) " \o ToString(result.lowRiskCount)
                  \o " low-risk file(s) noted">>
         ELSE <<>>)
     \o [k \in 1..Len(entries) |->
           getCategoryIcon(entries[k].key) \o " " \o entries[k].key \o ": "
             \o ToString(Len(entries[k].value)) \o " file(s)"]

RiskSummary(result) ==
  [totalRiskFiles |-> Len(result.files),
   highRisk |-> result.highRiskCount,
   mediumRisk |-> result.mediumRiskCount,
   lowRisk |-> result.lowRiskCount,
   categories |-> ObjectKeys(result.byCategory)]

\* the outcome of analyzeRisk after its loop: the report it resolves to, or
\* the rejection
RiskOutcome(loop) ==
  IF loop.threw THEN [status |-> "threw", error |-> "TypeError"]
  ELSE [status |-> "returned",
        report |->
          [files |-> loop.result.files,
           highRiskCount |-> loop.result.highRiskCount,
           mediumRiskCount |-> loop.result.mediumRiskCount,
           lowRiskCount |-> loop.result.lowRiskCount,
           byCategory |-> loop.result.byCategory,
           details |-> RiskDetails(loop.result),
           summary |-> RiskSummary(loop.result)]]

\* analyzeRisk(files, {customPatterns, ignorePatterns})
analyzeRisk(fileList, opts) ==
  RiskOutcome(RiskLoop(fileList, CombinePatterns(opts.customPatterns),
                       opts.ignorePatterns, 1, EmptyRiskResult))

RiskOptions ==
  [customPatterns : SeqsUpTo(CustomPool, MaxCustom), ignorePatterns : IgnoreLists]

\* analyzeComplexity reads only ignorePatterns of its options
ComplexityOptions == [customPatterns : {<<>>}, ignorePatterns : IgnoreLists]

(***************************************************************************)
(* Diff parser, src/analyzers/complexity.js                                *)
(***************************************************************************)
\* the regular expression /^diff --git/m matches at position i
IsFileHeaderAt(diffText, i) ==
  /\ StartsWithAt(diffText, "diff --git", i)
  /\ (i = 1 \/ Char(diffText, i - 1) \in LineTerminators)

NextFileHeader(diffText, i) ==
  LET at(k) == IsFileHeaderAt(diffText, k)
  IN Least(i, Len(diffText), at)

\* diff.split(/^diff --git/m)
RECURSIVE SplitFileParts(_)
SplitFileParts(diffText) ==
  LET k == NextFileHeader(diffText, 1)
  IN IF k = 0 THEN <<diffText>>
     ELSE <<SubSeq(diffText, 1, k - 1)>>
            \o SplitFileParts(SubSeq(diffText, k + Len("diff --git"), Len(diffText)))

\* the lazy group of /a\/(.+?) b\// when it starts at position g: the
\* position of the first " b/" after at least one character of the group,
\* 0 when a line end comes first or there is none
LazyGroupEnd(part, g) ==
  LET closes(j) == StartsWithAt(part, " b/", j)
      lineEnd(j) == Char(part, j) \in LineTerminators
      close == Least(g + 1, Len(part), closes)
      stop == Least(g, Len(part), lineEnd)
  IN IF close # 0 /\ (stop = 0 \/ stop >= close) THEN close ELSE 0

\* part.match(/a\/(.+?) b\//), searched from position i on: the captured
\* group, "" standing for no match (the group is never empty)
FileMatchFrom(part, i) ==
  LET matchesAt(k) == StartsWithAt(part, "a/", k) /\ LazyGroupEnd(part, k + 2) # 0
      start == Least(i, Len(part), matchesAt)
  IN IF start = 0 THEN ""
     ELSE SubSeq(part, start + 2, LazyGroupEnd(part, start + 2) - 1)

\* variant: every line that begins with "+" counts, the new-file marker
\* included
IsAddedLine_KeepsMarker(line) == StartsWith(line, "+")

IsAddedLine(line) == StartsWith(line, "+") /\ ~StartsWith(line, "+++")

\* the added lines of a file part, without their "+", joined by "\n"
AddedLines(part) ==
  LET added == SelectSeq(Split(part, "\n"), IsAddedLine)
  IN Join([k \in 1..Len(added) |-> Tail(added[k])], "\n")

RECURSIVE ParseFileParts(_, _, _)
\* variant: a part without a file name ends the loop (return instead of
\* continue)
ParseFileParts_StopsAtBadSection(fileParts, k, parsed) ==
  IF k > Len(fileParts) THEN parsed
  ELSE LET part == fileParts[k]
           filename == FileMatchFrom(part, 1)
       IN IF Trim(part) = "" THEN ParseFileParts(fileParts, k + 1, parsed)
          ELSE IF filename = "" THEN parsed
          ELSE ParseFileParts(fileParts, k + 1, ObjSet(parsed, filename, AddedLines(part)))

ParseFileParts(fileParts, k, parsed) ==
  IF k > Len(fileParts) THEN parsed
  ELSE LET part == fileParts[k]
           filename == FileMatchFrom(part, 1)
       IN IF Trim(part) = "" \/ filename = ""
          THEN ParseFileParts(fileParts, k + 1, parsed)
          ELSE ParseFileParts(fileParts, k + 1, ObjSet(parsed, filename, AddedLines(part)))

\* the body of parseDiff for a diff that is a non-empty text; the results for
\* the diffs of the model's inputs are tabulated once
KnownDiffTexts == {d.s : d \in {x \in DiffPool : x.t = "string"}}

ParseDiffTable ==
  [diffText \in KnownDiffTexts |-> ParseFileParts(SplitFileParts(diffText), 1, <<>>)]

ParseDiffText(diffText) ==
  IF diffText \in KnownDiffTexts THEN ParseDiffTable[diffText]
  ELSE ParseFileParts(SplitFileParts(diffText), 1, <<>>)

\* variant: no check of the argument before diff.split
parseDiff_Unguarded(d) ==
  IF d.t # "string" THEN [threw |-> TRUE, files |-> <<>>]
  ELSE [threw |-> FALSE, files |-> ParseDiffText(d.s)]

\* parseDiff(diff): the map from file name to added text
parseDiff(d) ==
  IF ~Truthy(d) \/ d.t # "string" THEN [threw |-> FALSE, files |-> <<>>]
  ELSE [threw |-> FALSE, files |-> ParseDiffText(d.s)]

\* the added texts found in the diffs of the model's inputs
KnownContents ==
  UNION {{ParseDiffTable[t][k].value : k \in 1..Len(ParseDiffTable[t])} : t \in KnownDiffTexts}

(***************************************************************************)
(* Regular expressions, as far as the analyzers use them.  An expression   *)
(* is a sequence of items tried left to right with backtracking, greedy    *)
(* repetitions longest first and alternatives in the order written:        *)
(*   lit    a literal text                                                 *)
(*   alt    a group of literal alternatives                                *)
(*   rep    a character class repeated min..max times                      *)
(*   wordb  \b                                                             *)
(*   end    $ (without the m flag)                                         *)
(*   begin  ^ (without the m flag)                                         *)
(***************************************************************************)
Lit(text) == [kind |-> "lit", text |-> text, options |-> <<>>, class |-> "", min |-> 1, max |-> 1]
Alt(alternatives) == [kind |-> "alt", text |-> "", options |-> alternatives, class |-> "", min |-> 1, max |-> 1]
Rep(class, min, max) == [kind |-> "rep", text |-> "", options |-> <<>>, class |-> class, min |-> min, max |-> max]
WordB == [kind |-> "wordb", text |-> "", options |-> <<>>, class |-> "", min |-> 0, max |-> 0]
EndOfInput == [kind |-> "end", text |-> "", options |-> <<>>, class |-> "", min |-> 0, max |-> 0]
StartOfInput == [kind |-> "begin", text |-> "", options |-> <<>>, class |-> "", min |-> 0, max |-> 0]

\* stands for "no upper limit" in a repetition
Unlimited == 1000000

RegExp(name, items, flags) == [name |-> name, items |-> items, flags |-> flags]

IsLetter(c) == c \in UpperSet \/ c \in LowerSet

\* \w
IsWordChar(c) == Len(c) = 1 /\ (IsLetter(c) \/ IsDigit(c) \/ c = "_")

InClass(c, class) ==
  CASE class = "space" -> IsSpace(c)
    [] class = "word" -> IsWordChar(c)
    [] class = "semicolon" -> c = ";"
    [] class = "quote" -> c \in {"'", "\""}
    [] class = "notquote" -> c \notin {"'", "\""}
    [] class = "underscore-dash" -> c \in {"_", "-"}
    [] class = "notparen" -> c # ")"
    [] class = "notbrace" -> c # "}"
    [] class = "any" -> c \notin LineTerminators
    [] class = "slash" -> c \in {"/", "\\"}
    [] class = "s" -> c \in {"s", "S"}
    [] OTHER -> FALSE

\* the text occurs in s at position i, letter case ignored under the i flag
LitAt(s, text, i, flags) ==
  /\ i + Len(text) - 1 <= Len(s)
  /\ IF "i" \in flags
     THEN \A k \in 1..Len(text) :
             LowerChar(Char(s, i + k - 1)) = LowerChar(Char(text, k))
     ELSE SubSeq(s, i, i + Len(text) - 1) = text

\* the number of characters of the class from position i on, at most limit
RunLength(s, class, i, limit) ==
  LET outside(k) == ~InClass(Char(s, k), class)
      stop == Least(i, Len(s), outside)
      run == (IF stop = 0 THEN Len(s) + 1 ELSE stop) - i
  IN IF run > limit THEN limit ELSE run

IsWordBoundary(s, i) ==
  LET before == i > 1 /\ IsWordChar(Char(s, i - 1))
      after == i <= Len(s) /\ IsWordChar(Char(s, i))
  IN before # after

\* MatchItems: the position after the match of the items k.. of re at
\* position i of s, 0 when there is none
RECURSIVE MatchItems(_, _, _, _)
RECURSIVE TryOptions(_, _, _, _, _)
RECURSIVE TryRepeat(_, _, _, _, _)
MatchItems(re, k, s, i) ==
  IF k > Len(re.items) THEN i
  ELSE LET item == re.items[k]
       IN CASE item.kind = "lit" ->
                 IF LitAt(s, item.text, i, re.flags)
                 THEN MatchItems(re, k + 1, s, i + Len(item.text)) ELSE 0
            [] item.kind = "alt" -> TryOptions(re, k, s, i, 1)
            [] item.kind = "rep" ->
                 TryRepeat(re, k, s, i, RunLength(s, item.class, i, item.max))
            [] item.kind = "wordb" ->
                 IF IsWordBoundary(s, i) THEN MatchItems(re, k + 1, s, i) ELSE 0
            [] item.kind = "end" ->
                 IF i = Len(s) + 1 THEN MatchItems(re, k + 1, s, i) ELSE 0
            [] item.kind = "begin" ->
                 IF i = 1 THEN MatchItems(re, k + 1, s, i) ELSE 0

\* the alternatives of the group re.items[k] from the o-th on
TryOptions(re, k, s, i, o) ==
  IF o > Len(re.items[k].options) THEN 0
  ELSE LET text == re.items[k].options[o]
           rest == IF LitAt(s, text, i, re.flags)
                   THEN MatchItems(re, k + 1, s, i + Len(text)) ELSE 0
       IN IF rest # 0 THEN rest ELSE TryOptions(re, k, s, i, o + 1)

\* n repetitions of the class of re.items[k], then fewer
TryRepeat(re, k, s, i, n) ==
  IF n < re.items[k].min THEN 0
  ELSE LET rest == MatchItems(re, k + 1, s, i + n)
       IN IF rest # 0 THEN rest ELSE TryRepeat(re, k, s, i, n - 1)

(***************************************************************************)
(* Thresholds and patterns of src/analyzers/complexity.js                  *)
(***************************************************************************)
THRESHOLDS_maxFileLines == 500
THRESHOLDS_maxFunctionLines == 50
THRESHOLDS_maxNestingDepth == 4
THRESHOLDS_maxLineLength == 150
THRESHOLDS_maxCyclomaticComplexity == 10
THRESHOLDS_largeAdditions == 300

CLikeKeywords ==
  <<"if", "else", "for", "while", "do", "switch", "case", "catch", "&&", "||", "?">>

CONTROL_FLOW_PATTERNS ==
  [js |-> RegExp("CONTROL_FLOW_PATTERNS.js", <<WordB, Alt(CLikeKeywords), WordB>>, {"g"}),
   py |-> RegExp("CONTROL_FLOW_PATTERNS.py",
                 <<WordB,
                   Alt(<<"if", "elif", "else", "for", "while", "try", "except", "and", "or">>),
                   WordB>>, {"g"}),
   java |-> RegExp("CONTROL_FLOW_PATTERNS.java", <<WordB, Alt(CLikeKeywords), WordB>>, {"g"}),
   go |-> RegExp("CONTROL_FLOW_PATTERNS.go",
                 <<WordB, Alt(<<"if", "else", "for", "switch", "case", "select">>), WordB>>,
                 {"g"}),
   rb |-> RegExp("CONTROL_FLOW_PATTERNS.rb",
                 <<WordB,
                   Alt(<<"if", "elsif", "else", "unless", "case", "when", "while", "until",
                         "for", "rescue">>),
                   WordB>>, {"g"})]

Smell(pattern, type, message) == [pattern |-> pattern, type |-> type, message |-> message]

CODE_SMELL_PATTERNS == <<
  Smell(RegExp("CODE_SMELL_PATTERNS[0]", <<Alt(<<"TODO", "FIXME", "HACK", "XXX">>)>>, {"g", "i"}),
        "todo", "Contains TODO/FIXME comments"),
  Smell(RegExp("CODE_SMELL_PATTERNS[1]",
               <<Lit("console."), Alt(<<"log", "debug", "info", "warn", "error">>)>>, {"g"}),
        "debug", "Contains console statements"),
  Smell(RegExp("CODE_SMELL_PATTERNS[2]", <<Lit("debugger"), Rep("semicolon", 0, 1)>>, {"g"}),
        "debug", "Contains debugger statement"),
  Smell(RegExp("CODE_SMELL_PATTERNS[3]",
               <<Lit("print"), Rep("space", 0, Unlimited), Lit("(")>>, {"g"}),
        "debug", "Contains print statements"),
  Smell(RegExp("CODE_SMELL_PATTERNS[4]",
               <<Lit(".only"), Rep("space", 0, Unlimited), Lit("(")>>, {"g"}),
        "test", "Contains .only() in tests (will skip other tests)"),
  Smell(RegExp("CODE_SMELL_PATTERNS[5]",
               <<Alt(<<"eslint-disable", "@ts-ignore", "@ts-nocheck", "noqa">>)>>, {"g"}),
        "lint", "Contains lint disable comments"),
  Smell(RegExp("CODE_SMELL_PATTERNS[6]",
               <<Lit("password"), Rep("space", 0, Unlimited), Lit("="),
                 Rep("space", 0, Unlimited), Rep("quote", 1, 1),
                 Rep("notquote", 1, Unlimited), Rep("quote", 1, 1)>>, {"g", "i"}),
        "security", "Possible hardcoded password"),
  Smell(RegExp("CODE_SMELL_PATTERNS[7]",
               <<Lit("api"), Rep("underscore-dash", 0, 1), Lit("key"),
                 Rep("space", 0, Unlimited), Lit("="), Rep("space", 0, Unlimited),
                 Rep("quote", 1, 1), Rep("notquote", 1, Unlimited), Rep("quote", 1, 1)>>,
               {"g", "i"}),
        "security", "Possible hardcoded API key"),
  Smell(RegExp("CODE_SMELL_PATTERNS[8]",
               <<Rep("word", 1, Unlimited), Lit(".forEach("), Rep("notparen", 1, Unlimited),
                 Lit(")"), Rep("space", 0, Unlimited), Lit("{"),
                 Rep("notbrace", 1, Unlimited), Lit("await")>>, {"g"}),
        "async", "Async operation in forEach (use for...of instead)")
>>

\* the module-level regular expressions, which live as long as the process
ModuleRegExps ==
  {CONTROL_FLOW_PATTERNS[l].name : l \in DOMAIN CONTROL_FLOW_PATTERNS}
    \cup {CODE_SMELL_PATTERNS[k].pattern.name : k \in 1..Len(CODE_SMELL_PATTERNS)}

\* the module-level regular expression of the given name
ModuleRegExp(name) ==
  CHOOSE re \in {CONTROL_FLOW_PATTERNS[l] : l \in DOMAIN CONTROL_FLOW_PATTERNS}
                  \cup {CODE_SMELL_PATTERNS[k].pattern : k \in 1..Len(CODE_SMELL_PATTERNS)} :
    re.name = name

\* the position after the match of re at position k of s, 0 when there is
\* none
MatchEnd(re, s, k) == MatchItems(re, 1, s, k)

NoMatch == [found |-> FALSE, index |-> 0, end |-> 0]

\* the leftmost position at or after i where re matches s, 0 for none
FirstMatch(re, s, i) ==
  LET matchesAt(k) == MatchEnd(re, s, k) # 0
  IN Least(i, Len(s) + 1, matchesAt)

\* the match of re at position start of s (0 for none)
MatchAt(re, s, start) ==
  IF start = 0 THEN NoMatch
  ELSE [found |-> TRUE, index |-> start, end |-> MatchEnd(re, s, start)]

\* the leftmost match of re in s at or after position i
SearchFrom(re, s, i) == MatchAt(re, s, FirstMatch(re, s, i))

\* the result of exec for the match m: the match and the lastIndex left in
\* re; a regular expression without the g flag ignores lastIndex
ExecResult(re, li, m) ==
  [match |-> m,
   lastIndex |-> IF "g" \notin re.flags THEN li
                 ELSE IF m.found THEN m.end - 1 ELSE 0]

\* re.exec(s) with lastIndex = li (0-based)
ExecFrom(re, s, li) ==
  ExecResult(re, li, SearchFrom(re, s, IF "g" \in re.flags THEN li + 1 ELSE 1))

RegExpExec(re, s, li) == ExecFrom(re, s, li)

\* the loop of s.match(re) for a g expression: exec until it fails, an empty
\* match advancing lastIndex by one; x is the result of the exec just made
RECURSIVE MatchAll(_, _, _, _)
RECURSIVE MatchAllNext(_, _, _, _)
MatchAll(re, s, li, found) == MatchAllNext(re, s, found, RegExpExec(re, s, li))

MatchAllNext(re, s, found, x) ==
  IF ~x.match.found THEN [matches |-> found, lastIndex |-> x.lastIndex]
  ELSE MatchAll(re, s,
                IF x.match.end = x.match.index THEN x.lastIndex + 1 ELSE x.lastIndex,
                Append(found, SubSeq(s, x.match.index, x.match.end - 1)))

\* variant: one exec from the lastIndex left by the previous use (what
\* re.exec(s) or re.test(s) do with a g expression)
StringMatch_ExecOnce(s, re, li) ==
  LET x == RegExpExec(re, s, li)
  IN [matches |-> IF x.match.found
                  THEN <<SubSeq(s, x.match.index, x.match.end - 1)>> ELSE <<>>,
      lastIndex |-> x.lastIndex]

\* s.match(re) from lastIndex 0 for the module-level expressions on the added
\* texts of the model's inputs, tabulated once
MatchAllTable ==
  [s \in KnownContents |->
     [name \in ModuleRegExps |-> MatchAll(ModuleRegExp(name), s, 0, <<>>)] @@ <<>>] @@ <<>>

\* s.match(re) for a g expression whose lastIndex is li: lastIndex is set to
\* 0 first; the matches (none stands for null) and the lastIndex left in re
StringMatch(s, re, li) ==
  IF s \in KnownContents /\ re.name \in ModuleRegExps
  THEN MatchAllTable[s][re.name]
  ELSE MatchAll(re, s, 0, <<>>)

(***************************************************************************)
(* Complexity analyzer, src/analyzers/complexity.js: the estimator, the    *)
(* smell detector and the aggregator                                       *)
(***************************************************************************)
\* langMap[ext] || 'js'
LangOf(ext) ==
  CASE ext \in {"js", "jsx", "ts", "tsx"} -> "js"
    [] ext = "py" -> "py"
    [] ext = "java" -> "java"
    [] ext = "go" -> "go"
    [] ext = "rb" -> "rb"
    [] OTHER -> "js"

\* ext.replace('.', ''): the first "." removed
RemoveFirstDot(ext) ==
  LET k == IndexOfFrom(ext, ".", 1)
  IN IF k = 0 THEN ext ELSE SubSeq(ext, 1, k - 1) \o SubSeq(ext, k + 1, Len(ext))

TrailingColon == RegExp("", <<Lit(":"), Rep("space", 0, Unlimited), EndOfInput>>, {})
DedentKeyword ==
  RegExp("", <<StartOfInput, Alt(<<"return", "pass", "break", "continue">>)>>, {})

\* regex.test-like use of a literal without the g flag
RegExpMatches(re, text) == RegExpExec(re, text, 0).match.found

Max(a, b) == IF a > b THEN a ELSE b

\* the line opens a block
OpensBlock(trimmed) == Includes(trimmed, "{") \/ RegExpMatches(TrailingColon, trimmed)

\* the line closes a block
ClosesBlock(lang, trimmed) ==
  Includes(trimmed, "}") \/ (lang = "py" /\ RegExpMatches(DedentKeyword, trimmed))

\* variant: the depth is decremented without the floor at 0
NestingStep_NoFloor(currentNesting, maxNesting, opens, closes) ==
  LET opened == IF opens THEN currentNesting + 1 ELSE currentNesting
  IN [currentNesting |-> IF closes THEN opened - 1 ELSE opened,
      maxNesting |-> IF opens THEN Max(maxNesting, opened) ELSE maxNesting]

\* the body of the nesting loop for one line: the depth and the maximum
\* after the line
NestingStep(currentNesting, maxNesting, opens, closes) ==
  LET opened == IF opens THEN currentNesting + 1 ELSE currentNesting
  IN [currentNesting |-> IF closes THEN Max(0, opened - 1) ELSE opened,
      maxNesting |-> IF opens THEN Max(maxNesting, opened) ELSE maxNesting]

\* the nesting scan from the k-th line on
RECURSIVE NestingScan(_, _, _, _, _)
RECURSIVE NestingLine(_, _, _, _, _, _, _)
RECURSIVE NestingNext(_, _, _, _)
NestingScan(lines, lang, k, currentNesting, maxNesting) ==
  IF k > Len(lines) THEN maxNesting
  ELSE NestingLine(lines, lang, k, currentNesting, maxNesting,
                   OpensBlock(Trim(lines[k])), ClosesBlock(lang, Trim(lines[k])))

NestingLine(lines, lang, k, currentNesting, maxNesting, opens, closes) ==
  NestingNext(lines, lang, k, NestingStep(currentNesting, maxNesting, opens, closes))

NestingNext(lines, lang, k, after) ==
  NestingScan(lines, lang, k + 1, after.currentNesting, after.maxNesting)

\* variant: a line is long from 200 characters on
IsLongLine_Over200(line) == Len(line) > 200

IsLongLine(line) == Len(line) > THRESHOLDS_maxLineLength

\* the language whose control-flow pattern is used for the file
LangOfFile(filename) == LangOf(RemoveFirstDot(ToLowerCase(Extname(filename))))

\* the result of analyzeFileComplexity from the matches of the control-flow
\* pattern and the lines of the content
FileComplexity(lang, matched, lines, li) ==
  [complexity |-> Len(matched.matches) + 1,
   maxNesting |-> NestingScan(lines, lang, 1, 0, 0),
   longLines |-> Len(SelectSeq(lines, IsLongLine)),
   li |-> [li EXCEPT ![CONTROL_FLOW_PATTERNS[lang].name] = matched.lastIndex]]

\* analyzeFileComplexity for a file of the language lang
FileComplexityIn(lang, content, li) ==
  FileComplexity(lang,
                 StringMatch(content, CONTROL_FLOW_PATTERNS[lang],
                             li[CONTROL_FLOW_PATTERNS[lang].name]),
                 Split(content, "\n"), li)

\* analyzeFileComplexity(filename, content) with the module-level regular
\* expressions in the state li (name -> lastIndex); li is their state after
analyzeFileComplexity(filename, content, li) ==
  FileComplexityIn(LangOfFile(filename), content, li)

\* detectCodeSmells(content) from the k-th smell pattern on; matched is the
\* result of content.match for that pattern
RECURSIVE DetectFrom(_, _, _, _)
RECURSIVE DetectNext(_, _, _, _, _)
DetectFrom(content, k, smells, li) ==
  IF k > Len(CODE_SMELL_PATTERNS) THEN [smells |-> smells, li |-> li]
  ELSE DetectNext(content, k, smells, li,
                  StringMatch(content, CODE_SMELL_PATTERNS[k].pattern,
                              li[CODE_SMELL_PATTERNS[k].pattern.name]))

DetectNext(content, k, smells, li, matched) ==
  DetectFrom(content, k + 1,
             IF Len(matched.matches) > 0
             THEN Append(smells, [type |-> CODE_SMELL_PATTERNS[k].type,
                                  count |-> Len(matched.matches),
                                  message |-> CODE_SMELL_PATTERNS[k].message])
             ELSE smells,
             [li EXCEPT ![CODE_SMELL_PATTERNS[k].pattern.name] = matched.lastIndex])

detectCodeSmells(content, li) == DetectFrom(content, 1, <<>>, li)

codeExtensions ==
  {".js", ".jsx", ".ts", ".tsx", ".py", ".java", ".kt", ".go",
   ".rb", ".rs", ".c", ".cpp", ".h", ".cs", ".php", ".swift"}

isCodeFile(filename) == ToLowerCase(Extname(filename)) \in codeExtensions

\* getSmellIcon(type); the icons are written by name
getSmellIcon(type) ==
  CASE type = "todo" -> "(memo)"
    [] type = "debug" -> "(bug)"
    [] type = "test" -> "(test-tube)"
    [] type = "lint" -> "(muted-speaker)"
    [] type = "security" -> "(closed-lock-with-key)"
    [] type = "async" -> "(hourglass)"
    [] OTHER -> "(nose)"

EmptyComplexityResult ==
  [warnings |-> <<>>, largeFiles |-> <<>>, complexFiles |-> <<>>, codeSmells |-> <<>>,
   stats |-> [totalAdditions |-> 0, totalDeletions |-> 0],
   details |-> <<>>]

Warning(type, severity, filename, message) ==
  [type |-> type, severity |-> severity, filename |-> filename, message |-> message]

\* variant: the size check also fires at the threshold
SizeCheck_AtThreshold(result, file) ==
  IF file.additions >= THRESHOLDS_largeAdditions
  THEN [result EXCEPT
          !.largeFiles = Append(@, [filename |-> file.filename,
                                    additions |-> file.additions,
                                    deletions |-> file.deletions,
                                    message |-> "Large file change: +"
                                                  \o ToString(file.additions) \o " lines"]),
          !.warnings = Append(@, Warning("size", "medium", file.filename,
                         "Adding " \o ToString(file.additions)
                           \o " lines to single file. Consider breaking into smaller changes."))]
  ELSE result

\* "Check for large additions"
SizeCheck(result, file) ==
  IF file.additions > THRESHOLDS_largeAdditions
  THEN [result EXCEPT
          !.largeFiles = Append(@, [filename |-> file.filename,
                                    additions |-> file.additions,
                                    deletions |-> file.deletions,
                                    message |-> "Large file change: +"
                                                  \o ToString(file.additions) \o " lines"]),
          !.warnings = Append(@, Warning("size", "medium", file.filename,
                         "Adding " \o ToString(file.additions)
                           \o " lines to single file. Consider breaking into smaller changes."))]
  ELSE result

\* the checks made on the added text of a file, from the result cr of
\* analyzeFileComplexity and the result found of detectCodeSmells
RecordChecks(result, filename, cr, found) ==
  LET r1 == IF cr.complexity > THRESHOLDS_maxCyclomaticComplexity
            THEN [result EXCEPT
                    !.complexFiles = Append(@, [filename |-> filename,
                                                complexity |-> cr.complexity,
                                                message |-> "High cyclomatic complexity: "
                                                              \o ToString(cr.complexity)]),
                    !.warnings = Append(@, Warning("complexity", "high", filename,
                                   "Estimated cyclomatic complexity ("
                                     \o ToString(cr.complexity) \o ") exceeds threshold ("
                                     \o ToString(THRESHOLDS_maxCyclomaticComplexity) \o ")"))]
            ELSE result
      r2 == IF cr.maxNesting > THRESHOLDS_maxNestingDepth
            THEN [r1 EXCEPT !.warnings = Append(@, Warning("nesting", "medium", filename,
                                   "Deep nesting detected (" \o ToString(cr.maxNesting)
                                     \o " levels). Consider refactoring."))]
            ELSE r1
      r3 == [r2 EXCEPT !.codeSmells =
               @ \o [k \in 1..Len(found.smells) |->
                       [filename |-> filename,
                        type |-> found.smells[k].type,
                        count |-> found.smells[k].count,
                        message |-> found.smells[k].message]]]
      r4 == IF cr.longLines > 0
            THEN [r3 EXCEPT !.warnings = Append(@, Warning("formatting", "low", filename,
                                   ToString(cr.longLines) \o " line(s) exceed "
                                     \o ToString(THRESHOLDS_maxLineLength) \o " characters"))]
            ELSE r3
  IN [result |-> r4, li |-> found.li]

\* the smell detection, which follows analyzeFileComplexity
SmellChecks(result, filename, fileContent, cr) ==
  RecordChecks(result, filename, cr, detectCodeSmells(fileContent, cr.li))

\* the checks made on the added text of a file
ContentChecks(result, filename, fileContent, li) ==
  SmellChecks(result, filename, fileContent,
              analyzeFileComplexity(filename, fileContent, li))

\* the loop over files of analyzeComplexity from the i-th file on:
\* ComplexityLoop tries the ignore patterns, ComplexityFile sums and checks
\* the size, ComplexityNext goes on after the checks of the added text
RECURSIVE ComplexityLoop(_, _, _, _, _, _)
RECURSIVE ComplexityFile(_, _, _, _, _, _, _)
RECURSIVE ComplexityNext(_, _, _, _, _)
ComplexityLoop(fileList, diffContent, ignorePatterns, i, result, li) ==
  IF i > Len(fileList) THEN [threw |-> FALSE, result |-> result, li |-> li]
  ELSE ComplexityFile(fileList, diffContent, ignorePatterns, i, result, li,
                      IgnoreSome(fileList[i].filename, ignorePatterns, 1))

ComplexityFile(fileList, diffContent, ignorePatterns, i, result, li, ignored) ==
  IF ignored = "throw" THEN [threw |-> TRUE, result |-> result, li |-> li]
  ELSE IF ignored = "true" \/ ~isCodeFile(fileList[i].filename)
  THEN ComplexityLoop(fileList, diffContent, ignorePatterns, i + 1, result, li)
  ELSE
    LET file == fileList[i]
        summed == [result EXCEPT
                     !.stats.totalAdditions = @ + file.additions,
                     !.stats.totalDeletions = @ + file.deletions]
        sized == SizeCheck(summed, file)
    IN IF HasOwn(diffContent, file.filename)
          /\ ObjGet(diffContent, file.filename) # ""
       THEN ComplexityNext(fileList, diffContent, ignorePatterns, i,
                           ContentChecks(sized, file.filename,
                                         ObjGet(diffContent, file.filename), li))
       ELSE ComplexityLoop(fileList, diffContent, ignorePatterns, i + 1, sized, li)

ComplexityNext(fileList, diffContent, ignorePatterns, i, checked) ==
  ComplexityLoop(fileList, diffContent, ignorePatterns, i + 1,
                 checked.result, checked.li)

\* Math.round(a / b) for a >= 0 and b > 0
RoundedQuotient(a, b) == (2 * a + b) \div (2 * b)

\* files.reduce((max, f) => f.additions > max.additions ? f : max, files[0])
RECURSIVE LargestFrom(_, _, _)
LargestFrom(fileList, k, max) ==
  IF k > Len(fileList) THEN max
  ELSE LargestFrom(fileList, k + 1,
                   IF fileList[k].additions > max.additions THEN fileList[k] ELSE max)

\* "Calculate stats"; largestFile is <<>> for null
ComplexityStats(fileList, result) ==
  IF Len(fileList) > 0
  THEN [totalAdditions |-> result.stats.totalAdditions,
        totalDeletions |-> result.stats.totalDeletions,
        largestFile |-> LET largest == LargestFrom(fileList, 1, fileList[1])
                        IN <<[filename |-> largest.filename,
                              additions |-> largest.additions]>>,
        averageFileSize |-> RoundedQuotient(result.stats.totalAdditions, Len(fileList))]
  ELSE [totalAdditions |-> result.stats.totalAdditions,
        totalDeletions |-> result.stats.totalDeletions,
        largestFile |-> <<>>,
        averageFileSize |-> 0]

\* byType[smell.type] = (byType[smell.type] || 0) + 1 over the smell records
RECURSIVE CountByType(_, _, _)
CountByType(codeSmells, k, byType) ==
  IF k > Len(codeSmells) THEN byType
  ELSE CountByType(codeSmells, k + 1,
                   ObjSet(byType, codeSmells[k].type,
                          (IF HasOwn(byType, codeSmells[k].type)
                           THEN ObjGet(byType, codeSmells[k].type) ELSE 0) + 1))

\* variant: the positive line is pushed whenever there are no warnings
ComplexityDetails_IgnoresSmells(result) ==
  LET byType == ObjectEntries(CountByType(result.codeSmells, 1, <<>>))
  IN (IF Len(result.largeFiles) > 0
      THEN <<"(ruler) " \o ToString(Len(result.largeFiles))
               \o " file(s) with large changes (>"
               \o ToString(THRESHOLDS_largeAdditions) \o " lines)">>
      ELSE <<>>)
     \o (IF Len(result.complexFiles) > 0
         THEN <<"(shuffle) " \o ToString(Len(result.complexFiles))
                  \o " file(s) with high complexity">>
         ELSE <<>>)
     \o [k \in 1..Len(byType) |->
           getSmellIcon(byType[k].key) \o " " \o ToString(byType[k].value) \o " "
             \o byType[k].key \o " code smell(s) detected"]
     \o (IF Len(result.warnings) = 0
         THEN <<"(check) No significant complexity issues detected">>
         ELSE <<>>)

\* "Generate details"
ComplexityDetails(result) ==
  LET byType == ObjectEntries(CountByType(result.codeSmells, 1, <<>>))
  IN (IF Len(result.largeFiles) > 0
      THEN <<"(ruler) " \o ToString(Len(result.largeFiles))
               \o " file(s) with large changes (>"
               \o ToString(THRESHOLDS_largeAdditions) \o " lines)">>
      ELSE <<>>)
     \o (IF Len(result.complexFiles) > 0
         THEN <<"(shuffle) " \o ToString(Len(result.complexFiles))
                  \o " file(s) with high complexity">>
         ELSE <<>>)
     \o [k \in 1..Len(byType) |->
           getSmellIcon(byType[k].key) \o " " \o ToString(byType[k].value) \o " "
             \o byType[k].key \o " code smell(s) detected"]
     \o (IF Len(result.warnings) = 0 /\ Len(result.codeSmells) = 0
         THEN <<"(check) No significant complexity issues detected">>
         ELSE <<>>)

\* the loop of analyzeComplexity over the parsed diff
ComplexityRun(fileList, diffContent, ignorePatterns, li) ==
  IF diffContent.threw
  THEN [threw |-> TRUE, result |-> EmptyComplexityResult, li |-> li]
  ELSE ComplexityLoop(fileList, diffContent.files, ignorePatterns, 1,
                      EmptyComplexityResult, li)

\* the report of analyzeComplexity from the result of its loop and the
\* stats
ComplexityReport(result, stats) ==
  [warnings |-> result.warnings,
   largeFiles |-> result.largeFiles,
   complexFiles |-> result.complexFiles,
   codeSmells |-> result.codeSmells,
   stats |-> stats,
   details |-> ComplexityDetails(result),
   summary |-> [totalWarnings |-> Len(result.warnings),
                largeFiles |-> Len(result.largeFiles),
                complexFiles |-> Len(result.complexFiles),
                codeSmells |-> Len(result.codeSmells),
                totalAdditions |-> stats.totalAdditions,
                totalDeletions |-> stats.totalDeletions]]

\* the outcome of analyzeComplexity after its loop: the report it resolves
\* to, or the rejection, and the state of the regular expressions after
ComplexityOutcome(fileList, loop) ==
  [outcome |->
     IF loop.threw THEN [status |-> "threw", error |-> "TypeError"]
     ELSE [status |-> "returned",
           report |-> ComplexityReport(loop.result,
                                       ComplexityStats(fileList, loop.result))],
   li |-> loop.li]

\* analyzeComplexity(files, diff, {ignorePatterns}) with the module-level
\* regular expressions in the state li
analyzeComplexity(fileList, d, opts, li) ==
  ComplexityOutcome(fileList,
                    ComplexityRun(fileList, parseDiff(d), opts.ignorePatterns, li))

(***************************************************************************)
(* The analyzers as called by a test or by run(): fn and its arguments,    *)
(* and the outcomes of the calls made so far with these arguments.         *)
(***************************************************************************)
VARIABLES fn, files, diff, options, returned, lastIndex, pc, comments, effects,
          results, aiSummary, existingComment

vars ==
  <<fn, files, diff, options, returned, lastIndex, pc, comments, effects,
    results, aiSummary, existingComment>>

\* the variables of a run of the action: the position of run() or of
\* postComment(), the comments of the pull request, what the run has done so
\* far (API requests, outputs, log lines, failure), the reports of the four
\* analyzers, the AI summary and the comment findExistingComment returned;
\* an analyzer called on its own leaves them alone
runVars == <<pc, comments, effects, results, aiSummary, existingComment>>

Null == [t |-> "null"]

CalledDirectly ==
  /\ pc = "none"
  /\ comments = <<>>
  /\ effects = <<>>
  /\ results = Null
  /\ aiSummary = Null
  /\ existingComment = Undefined

\* at load time every regular expression has lastIndex 0
InitRegExps == lastIndex = [name \in ModuleRegExps |-> 0]

InitRisk ==
  /\ fn = "analyzeRisk"
  /\ files \in SeqsUpTo(FilePool, MaxFiles)
  /\ diff = Undefined
  /\ options \in RiskOptions
  /\ returned = <<>>
  /\ InitRegExps
  /\ CalledDirectly

InitComplexity ==
  /\ fn = "analyzeComplexity"
  /\ files \in SeqsUpTo(FilePool, MaxFiles)
  /\ diff \in DiffPool
  /\ options \in ComplexityOptions
  /\ returned = <<>>
  /\ InitRegExps
  /\ CalledDirectly

\* variant: the analyzer sorts the caller's list in place by additions
\* (files.sort(...) instead of a sort of a copy)
CallAnalyzeRisk_SortsInPlace ==
  /\ fn = "analyzeRisk"
  /\ Len(returned) < MaxCalls
  /\ returned' = Append(returned, analyzeRisk(files, options))
  /\ files' = IF Len(files) >= 2 /\ files[1].additions < files[2].additions
              THEN <<files[2], files[1]>> \o SubSeq(files, 3, Len(files))
              ELSE files
  /\ UNCHANGED <<fn, diff, options, lastIndex, runVars>>

CallAnalyzeRisk ==
  /\ fn = "analyzeRisk"
  /\ Len(returned) < MaxCalls
  /\ returned' = Append(returned, analyzeRisk(files, options))
  /\ UNCHANGED <<fn, files, diff, options, lastIndex, runVars>>

CallAnalyzeComplexity ==
  /\ fn = "analyzeComplexity"
  /\ Len(returned) < MaxCalls
  /\ \E call \in {analyzeComplexity(files, diff, options, lastIndex)} :
        /\ returned' = Append(returned, call.outcome)
        /\ lastIndex' = call.li
  /\ UNCHANGED <<fn, files, diff, options, runVars>>

Init == InitRisk \/ InitComplexity

Next == CallAnalyzeRisk \/ CallAnalyzeComplexity

Spec == Init /\ [][Next]_vars



(***************************************************************************)
(* Properties of the risk report.                                          *)
(***************************************************************************)
\* the reports analyzeRisk has returned for the current arguments
RiskReports ==
  {returned[k].report :
     k \in {j \in 1..Len(returned) : fn = "analyzeRisk" /\ returned[j].status = "returned"}}

\* the file name matches some pattern of the ignore list
MatchesIgnore(filename, ignorePatterns) ==
  \E k \in 1..Len(ignorePatterns) :
     ignorePatterns[k].t = "string" /\ Minimatch(filename, ignorePatterns[k].s)

FindingsOfSeverity(r, level) == {i \in 1..Len(r.files) : r.files[i].severity = level}

\* C1: in every report returned by analyzeRisk the three counters add up to
\* the number of findings, and each counter is the number of findings of its
\* severity.
C1_CountsMatchFindings ==
  \A r \in RiskReports :
     /\ r.highRiskCount + r.mediumRiskCount + r.lowRiskCount = Len(r.files)
     /\ r.highRiskCount = Cardinality(FindingsOfSeverity(r, "high"))
     /\ r.mediumRiskCount = Cardinality(FindingsOfSeverity(r, "medium"))
     /\ r.lowRiskCount = Cardinality(FindingsOfSeverity(r, "low"))

\* a report with findings of two different severities
C1_Witness ==
  \E r \in RiskReports :
     /\ Len(r.files) = 2
     /\ r.mediumRiskCount = 1
     /\ r.lowRiskCount = 1

\* the categories, in order, of the well-formed rules that match the file
RuleMatches(rule, filename) ==
  rule.pattern.t = "string" /\ Minimatch(filename, rule.pattern.s)

\* the rules in force: the defaults, then the custom rules with the defaults
\* of their missing fields
RulesInForce ==
  DEFAULT_RISK_PATTERNS \o
  [k \in 1..Len(options.customPatterns) |->
     LET p == options.customPatterns[k]
     IN [pattern |-> IF p.pattern.t = "undefined" THEN p.self ELSE p.pattern,
         category |-> IF p.category.t = "undefined" THEN "custom" ELSE p.category.s,
         severity |-> IF p.severity.t = "undefined" THEN "medium" ELSE p.severity.s,
         message |-> IF p.message.t = "undefined" THEN "Custom risk pattern"
                     ELSE p.message.s]]

RulesMatching(filename) ==
  LET hit(rule) == RuleMatches(rule, filename)
  IN SelectSeq(RulesInForce, hit)

Rank(level) == CASE level = "high" -> 3 [] level = "medium" -> 2 [] OTHER -> 1

Orderings(n) == {p \in [1..n -> 1..n] : \A a, b \in 1..n : p[a] = p[b] => a = b}

\* C3: the severity of a finding is the maximum of the severities of the
\* rules that match its file, and getHighestSeverity gives that severity for
\* the matching rules taken in any order.
C3_SeverityIsMaxInAnyOrder ==
  \A r \in RiskReports : \A i \in 1..Len(r.files) :
     LET matching == RulesMatching(r.files[i].filename)
         n == Len(matching)
     IN /\ \E k \in 1..n : matching[k].severity = r.files[i].severity
        /\ \A k \in 1..n : Rank(matching[k].severity) <= Rank(r.files[i].severity)
        /\ \A p \in Orderings(n) :
              getHighestSeverity([k \in 1..n |-> matching[p[k]]]) = r.files[i].severity

\* the migration of scenario B: a high rule followed by a medium rule
C3_Witness ==
  \E r \in RiskReports : \E i \in 1..Len(r.files) :
     /\ r.files[i].filename = "migrations/20240101_add_users.sql"
     /\ r.files[i].severity = "high"
     /\ r.files[i].patterns[1] = "**/migrations/**"
     /\ r.files[i].patterns[2] = "**/*.sql"
     /\ "database" \in {r.files[i].categories[k] : k \in 1..Len(r.files[i].categories)}



\* the entries of the file list whose name matches no ignore pattern
NotIgnored(fileList) ==
  LET kept(f) == ~MatchesIgnore(f.filename, options.ignorePatterns)
  IN SelectSeq(fileList, kept)

\* the reports analyzeComplexity has returned for the current arguments
ComplexityReports ==
  {returned[k].report :
     k \in {j \in 1..Len(returned) :
              fn = "analyzeComplexity" /\ returned[j].status = "returned"}}

\* the file names of the entries of a list of the complexity report
NamesIn(entries) == {entries[k].filename : k \in 1..Len(entries)}

\* C2: a file whose name matches an ignore pattern is in no finding and in no
\* byCategory list of the risk report, whose counters are those of the report
\* for the file list without the ignored files; and it is in no warning,
\* largeFiles entry, complexFiles entry or code smell of the complexity
\* report.
C2_IgnoredAbsentFromReports ==
  /\ \A r \in RiskReports :
        /\ \A i \in 1..Len(r.files) :
              ~MatchesIgnore(r.files[i].filename, options.ignorePatterns)
        /\ \A k \in 1..Len(r.byCategory) : \A j \in 1..Len(r.byCategory[k].value) :
              ~MatchesIgnore(r.byCategory[k].value[j], options.ignorePatterns)
        /\ analyzeRisk(NotIgnored(files), options) = [status |-> "returned", report |-> r]
  /\ \A r \in ComplexityReports :
        \A name \in NamesIn(r.warnings) \cup NamesIn(r.largeFiles)
                      \cup NamesIn(r.complexFiles) \cup NamesIn(r.codeSmells) :
           ~MatchesIgnore(name, options.ignorePatterns)

\* an ignored vendor file with 350 additions, ten branches and a debugger
\* statement in the diff, next to a file that is reported
C2_Witness ==
  /\ fn = "analyzeComplexity"
  /\ \E i \in 1..Len(files) :
        /\ files[i].filename = "vendor/api/client.js"
        /\ files[i].additions = 350
  /\ options.ignorePatterns = <<Str("**/vendor/**")>>
  /\ HasOwn(parseDiff(diff).files, "vendor/api/client.js")
  /\ \E r \in ComplexityReports :
        /\ Len(r.warnings) = 1
        /\ r.warnings[1].filename = "src/payments/checkout.js"

WellFormed(p) == (IF p.pattern.t = "undefined" THEN p.self ELSE p.pattern).t = "string"

\* C4: a malformed custom pattern matches no file: analyzeRisk returns, and
\* returns the report it returns without the malformed rules.
C4_MalformedPatternMatchesNothing ==
  fn = "analyzeRisk" =>
    \A k \in 1..Len(returned) :
       returned[k] =
         analyzeRisk(files, [options EXCEPT !.customPatterns = SelectSeq(@, WellFormed)])

DefaultCount == Len(DEFAULT_RISK_PATTERNS)

\* the custom rules (by position in customPatterns) that match the file
CustomMatching(filename) ==
  {k \in 1..Len(options.customPatterns) :
     RuleMatches(RulesInForce[DefaultCount + k], filename)}

DefaultMatches(filename) ==
  \E k \in 1..DefaultCount : RuleMatches(DEFAULT_RISK_PATTERNS[k], filename)

SeqToSet(seq) == {seq[k] : k \in 1..Len(seq)}

\* C9: the patterns and messages of a finding are those of the matching
\* default rules followed by those of the matching custom rules; a custom
\* rule without category counts under "custom", and a file matched only by
\* custom rules without severity is medium; scenario D gives one finding of
\* category financial and highRiskCount = 1.
C9_CustomRulesAfterDefaults ==
  /\ \A r \in RiskReports : \A i \in 1..Len(r.files) :
        LET f == r.files[i]
            matching == RulesMatching(f.filename)
            custom == CustomMatching(f.filename)
        IN /\ f.patterns = [k \in 1..Len(matching) |-> matching[k].pattern.s]
           /\ f.messages = [k \in 1..Len(matching) |-> matching[k].message]
           /\ \A k \in custom :
                 (IF options.customPatterns[k].category.t = "undefined" THEN "custom"
                  ELSE options.customPatterns[k].category.s) \in SeqToSet(f.categories)
           /\ (/\ ~DefaultMatches(f.filename)
               /\ \A k \in custom : options.customPatterns[k].severity.t = "undefined")
              => f.severity = "medium"
  /\ (/\ fn = "analyzeRisk"
      /\ files = <<ChangedFile("src/payments/checkout.js", "modified", 350, 20)>>
      /\ options.customPatterns =
           <<CustomRule(Str("**/payments/**"), Str("financial"), Str("high"),
                        Str("Payment code"))>>
      /\ options.ignorePatterns = <<>>)
     => \A k \in 1..Len(returned) :
           /\ returned[k].status = "returned"
           /\ Len(returned[k].report.files) = 1
           /\ returned[k].report.files[1].categories = <<"financial">>
           /\ returned[k].report.highRiskCount = 1

\* a file matched by a default rule and by a custom rule that has neither
\* severity nor category
C9_Witness ==
  \E r \in RiskReports : \E i, j \in 1..Len(r.files) :
     /\ r.files[i].filename = "src/app.js"
     /\ r.files[i].severity = "medium"
     /\ r.files[i].categories = <<"custom">>
     /\ r.files[j].patterns = <<"**/api/**", "**/*.js">>
     /\ r.files[j].categories = <<"api", "custom">>

\* C10: the keys of byCategory are the categories of the findings, each once;
\* byCategory[c] is the list of the file names of the findings that have c
\* among their categories, in the order of the findings; summary.categories
\* holds exactly those keys.
C10_ByCategoryIndexesFindings ==
  \A r \in RiskReports :
     LET keys == {r.byCategory[k].key : k \in 1..Len(r.byCategory)}
         has(c) == LET P(f) == c \in SeqToSet(f.categories)
                   IN SelectSeq(r.files, P)
     IN /\ keys = UNION {SeqToSet(r.files[i].categories) : i \in 1..Len(r.files)}
        /\ Cardinality(keys) = Len(r.byCategory)
        /\ \A k \in 1..Len(r.byCategory) :
              r.byCategory[k].value =
                [j \in 1..Len(has(r.byCategory[k].key)) |->
                   has(r.byCategory[k].key)[j].filename]
        /\ SeqToSet(r.summary.categories) = keys
        /\ Len(r.summary.categories) = Len(r.byCategory)

\* two findings that share one category and differ in another
C10_Witness ==
  \E r \in RiskReports :
     /\ Len(r.files) = 2
     /\ r.files[1].filename # r.files[2].filename
     /\ \E k \in 1..Len(r.byCategory) : Len(r.byCategory[k].value) = 2
     /\ \E k \in 1..Len(r.byCategory) : Len(r.byCategory[k].value) = 1

(***************************************************************************)
(* Properties of the complexity report.                                    *)
(***************************************************************************)
\* the added text of the file in the diff, "" when the diff has none
AddedText(filename) ==
  LET parsed == parseDiff(diff).files
  IN IF HasOwn(parsed, filename) THEN ObjGet(parsed, filename) ELSE ""

\* the file is analysed: not ignored, a code file
Analysed(filename) ==
  ~MatchesIgnore(filename, options.ignorePatterns) /\ isCodeFile(filename)

CLikeFile(filename) ==
  LangOf(RemoveFirstDot(ToLowerCase(Extname(filename)))) \in {"js", "java"}

BranchOperators == {"&&", "||", "?"}

BranchKeywords == {"if", "else", "for", "while", "do", "switch", "case", "catch"}

\* a branch operator, or a branch keyword as a whole word, starts at position i
BranchTokenAt(text, i) ==
  \/ \E op \in BranchOperators : LitAt(text, op, i, {})
  \/ \E kw \in BranchKeywords :
        /\ LitAt(text, kw, i, {})
        /\ IsWordBoundary(text, i)
        /\ IsWordBoundary(text, i + Len(kw))

\* the number of occurrences of branch tokens in the text
BranchOccurrences(text) == Cardinality({i \in 1..Len(text) : BranchTokenAt(text, i)})

\* C5: for a C-like file the complexity is the number of occurrences of
\* branch keywords and of the operators &&, || and ? in the added text, plus
\* one, whatever surrounds the operators; eleven occurrences give complexity
\* 12 and a complexity warning of severity high.
C5_EveryOccurrenceCounts ==
  \A r \in ComplexityReports : \A i \in 1..Len(files) :
     LET name == files[i].filename
         text == AddedText(name)
         tokens == BranchOccurrences(text)
     IN (Analysed(name) /\ CLikeFile(name) /\ text # "") =>
          /\ analyzeFileComplexity(name, text, lastIndex).complexity = tokens + 1
          /\ tokens = 11 =>
                /\ \E k \in 1..Len(r.complexFiles) :
                      /\ r.complexFiles[k].filename = name
                      /\ r.complexFiles[k].complexity = 12
                /\ \E k \in 1..Len(r.warnings) :
                      /\ r.warnings[k].filename = name
                      /\ r.warnings[k].type = "complexity"
                      /\ r.warnings[k].severity = "high"

\* C6: the outcomes of successive calls of analyzeRisk, or of
\* analyzeComplexity, on the same arguments are equal, and a call leaves every
\* module-level regular expression with lastIndex 0.
C6_RepeatedCallsAgree ==
  /\ \A i, j \in 1..Len(returned) : returned[i] = returned[j]
  /\ \A name \in ModuleRegExps : lastIndex[name] = 0

\* two calls on a diff that has branches, a console statement and a TODO
C6_Witness ==
  /\ fn = "analyzeComplexity"
  /\ Len(returned) = 2
  /\ \E r \in ComplexityReports :
        /\ Len(r.complexFiles) = 1
        /\ Len(r.codeSmells) = 2

\* C7: for a diff that is absent, empty or not a string parseDiff returns the
\* empty map, and analyzeComplexity returns a report without complexFiles
\* entry, without code smell and with no warning other than size warnings.
C7_NoDiffOnlySizeWarnings ==
  (fn = "analyzeComplexity" /\ (~Truthy(diff) \/ diff.t # "string")) =>
     /\ parseDiff(diff) = [threw |-> FALSE, files |-> <<>>]
     /\ \A k \in 1..Len(returned) :
           /\ returned[k].status = "returned"
           /\ returned[k].report.complexFiles = <<>>
           /\ returned[k].report.codeSmells = <<>>
           /\ \A w \in 1..Len(returned[k].report.warnings) :
                 returned[k].report.warnings[w].type = "size"

\* a diff that is a number, and a file large enough for a size warning
C7_Witness ==
  /\ fn = "analyzeComplexity"
  /\ diff = Num("42")
  /\ \E r \in ComplexityReports :
        /\ Len(r.warnings) = 1
        /\ r.warnings[1].type = "size"

\* the entries of a list of the complexity report that are about the file
EntriesFor(entries, filename) ==
  {k \in 1..Len(entries) : entries[k].filename = filename}

\* C8: the size warnings and the largeFiles entries of a file are as many as
\* the analysed entries of that file in the file list that have more than 300
\* additions: one each for such an entry, none for an entry with 300 or
\* fewer, an ignored file or a file that is not code; a size warning has
\* severity medium.
C8_SizeWarningIffOver300 ==
  \A r \in ComplexityReports :
     /\ \A name \in NamesIn(files) \cup NamesIn(r.warnings) \cup NamesIn(r.largeFiles) :
           LET large == {i \in 1..Len(files) :
                           /\ files[i].filename = name
                           /\ Analysed(name)
                           /\ files[i].additions > 300}
               sizeWarnings == {k \in EntriesFor(r.warnings, name) :
                                  r.warnings[k].type = "size"}
           IN /\ Cardinality(sizeWarnings) = Cardinality(large)
              /\ Cardinality(EntriesFor(r.largeFiles, name)) = Cardinality(large)
     /\ \A k \in 1..Len(r.warnings) :
           r.warnings[k].type = "size" => r.warnings[k].severity = "medium"

\* scenario F next to a file with exactly 300 additions
C8_Witness ==
  /\ NamesIn(files) = {"src/payments/checkout.js", "src/app.js"}
  /\ \E r \in ComplexityReports :
        /\ NamesIn(r.largeFiles) = {"src/payments/checkout.js"}
        /\ Len(r.largeFiles) = 1
        /\ \E k \in 1..Len(r.warnings) :
              /\ r.warnings[k].type = "size"
              /\ r.warnings[k].filename = "src/payments/checkout.js"

(***************************************************************************)
(* The built-in risk patterns as documented (README.md, "Built-in Risk     *)
(* Patterns").                                                             *)
(***************************************************************************)
\* the database patterns of DEFAULT_RISK_PATTERNS the README lists
DocumentedDatabasePatterns == {"**/migrations/**", "**/*.sql", "**/schema*"}

\* C11: every file that is not ignored and matches a database pattern listed
\* in the README is reported with category database and severity high, also
\* when the SQL pattern is the only rule it matches.
C11_DatabaseFilesAreHigh ==
  \A r \in RiskReports : \A i \in 1..Len(files) :
     (/\ ~MatchesIgnore(files[i].filename, options.ignorePatterns)
      /\ \E p \in DocumentedDatabasePatterns : Minimatch(files[i].filename, p))
     => \E k \in 1..Len(r.files) :
           /\ r.files[k].filename = files[i].filename
           /\ "database" \in SeqToSet(r.files[k].categories)
           /\ r.files[k].severity = "high"

FileSection(oldPath, newPath, body) ==
  [old |-> oldPath, new |-> newPath,
   header |-> "diff --git a/" \o oldPath \o " b/" \o newPath,
   lines |-> <<"index 83db48f..bf269f4 100644", "--- a/" \o oldPath,
               "+++ b/" \o newPath, "@@ -1,3 +1,9 @@">> \o body]

\* a section whose header names no file
BrokenSection ==
  [old |-> "", new |-> "", header |-> "diff --git broken header",
   lines |-> <<"@@ -1 +1 @@", "+lost line">>]

SectionPool ==
  {FileSection("src/app.js", "src/app.js",
               <<" function f() {", "+  if(a)b()", "-  return 0", "+++i", " }">>),
   FileSection("lib/old.js", "lib/new.js", <<"+export const x = 1">>),
   BrokenSection,
   FileSection("src/b.py", "src/b.py", <<"-import os", " x = 1">>),
   FileSection("src/app.js", "src/app.js", <<"+second">>)}

SectionText(section) == section.header \o "\n" \o Join(section.lines, "\n") \o "\n"

RECURSIVE DiffText(_)
DiffText(sections) ==
  IF Len(sections) = 0 THEN ""
  ELSE SectionText(Head(sections)) \o DiffText(Tail(sections))

SectionLists == SeqsUpTo(SectionPool, MaxSections)

InitParseDiff ==
  /\ fn = "parseDiff"
  /\ files = <<>>
  /\ diff \in {Str(DiffText(sections)) : sections \in SectionLists}
  /\ options = [ignorePatterns |-> <<>>]
  /\ returned = <<>>
  /\ InitRegExps
  /\ CalledDirectly

CallParseDiff ==
  /\ fn = "parseDiff"
  /\ returned = <<>>
  /\ returned' = <<parseDiff(diff)>>
  /\ UNCHANGED <<fn, files, diff, options, lastIndex, runVars>>

NextParseDiff == CallParseDiff

SpecParseDiff == InitParseDiff /\ [][NextParseDiff]_vars

(***************************************************************************)
(* Properties of the diff parser.                                          *)
(***************************************************************************)
\* the sections the diff was put together from
SectionsOf(diffText) == CHOOSE sections \in SectionLists : DiffText(sections) = diffText

\* the map parseDiff returned for the diff
ParsedMaps == {returned[k].files : k \in {j \in 1..Len(returned) : fn = "parseDiff"}}

\* a line of added content: its first character is "+" and it does not begin
\* with three of them
AddedContentLine(line) ==
  /\ Len(line) >= 1 /\ Char(line, 1) = "+"
  /\ ~(Len(line) >= 3 /\ Char(line, 2) = "+" /\ Char(line, 3) = "+")

\* the added content of a section: its added lines in their order, without
\* the first character, joined by newlines
AddedContent(section) ==
  LET added == SelectSeq(section.lines, AddedContentLine)
  IN Join([k \in 1..Len(added) |-> SubSeq(added[k], 2, Len(added[k]))], "\n")

\* the last section of the list with the given path, by the field old or new
LastWith(sections, field, path) ==
  CHOOSE i \in 1..Len(sections) :
     /\ sections[i][field] = path
     /\ \A j \in (i + 1)..Len(sections) : sections[j][field] # path

\* C18: the added text of a file section is stored under the new path of its
\* header (the b/ path), so the entry of a renamed file is found under its
\* new name.
C18_KeyedByNewPath ==
  \A parsed \in ParsedMaps :
     LET sections == SectionsOf(diff.s)
     IN \A i \in 1..Len(sections) :
           sections[i].new # "" =>
              /\ HasOwn(parsed, sections[i].new)
              /\ ObjGet(parsed, sections[i].new) =
                   AddedContent(sections[LastWith(sections, "new", sections[i].new)])

\* C19: the text stored for a file section is the added content of the
\* section: the lines that begin with "+" but not with "+++", in their order,
\* without their first character, joined by newlines.
C19_StoredTextIsAddedLines ==
  \A parsed \in ParsedMaps :
     LET sections == SectionsOf(diff.s)
     IN /\ \A i \in 1..Len(sections) : sections[i].old # "" => HasOwn(parsed, sections[i].old)
        /\ \A k \in 1..Len(parsed) :
              /\ \E i \in 1..Len(sections) : sections[i].old = parsed[k].key
              /\ parsed[k].value =
                   AddedContent(sections[LastWith(sections, "old", parsed[k].key)])

\* a section with context, removed and added lines and an added line "++i"
\* has been parsed
C19_Witness ==
  \E parsed \in ParsedMaps :
     /\ HasOwn(parsed, "src/app.js")
     /\ ObjGet(parsed, "src/app.js") = "  if(a)b()"
     /\ HasOwn(parsed, "src/b.py")
     /\ ObjGet(parsed, "src/b.py") = ""

\* the list without the sections that name no file
WithoutBroken(sections) ==
  LET named(section) == section.old # ""
  IN SelectSeq(sections, named)

\* C20: a section that names no file adds no entry and raises no error, and
\* the map is the one returned for the diff without that section.
C20_BadSectionSkipped ==
  \A k \in 1..Len(returned) :
     fn = "parseDiff" =>
        /\ ~returned[k].threw
        /\ \A j \in 1..Len(returned[k].files) : returned[k].files[j].key # ""
        /\ returned[k] = parseDiff(Str(DiffText(WithoutBroken(SectionsOf(diff.s)))))

\* a section that names no file between two sections that do
C20_Witness ==
  /\ fn = "parseDiff"
  /\ Len(SectionsOf(diff.s)) = 3
  /\ SectionsOf(diff.s)[2] = BrokenSection
  /\ \E parsed \in ParsedMaps :
        /\ Len(parsed) = 2
        /\ parsed[1].key = "lib/old.js"
        /\ parsed[2].key = "src/b.py"

(***************************************************************************)
(* Coverage analyzer, src/analyzers/coverage.js                            *)
(***************************************************************************)
AnyChars == Rep("any", 0, Unlimited)

COVERAGE_PATTERNS == <<
  RegExp("", <<Lit("coverage"), Rep("slash", 0, 1), AnyChars, Lit(".json"), EndOfInput>>, {"i"}),
  RegExp("", <<Lit("lcov.info"), EndOfInput>>, {"i"}),
  RegExp("", <<Lit("coverage.xml"), EndOfInput>>, {"i"}),
  RegExp("", <<Lit("cobertura.xml"), EndOfInput>>, {"i"}),
  RegExp("", <<Lit("clover.xml"), EndOfInput>>, {"i"}),
  RegExp("", <<Lit("jacoco"), AnyChars, Lit(".xml"), EndOfInput>>, {"i"}),
  RegExp("", <<Lit(".coverage"), EndOfInput>>, {"i"}),
  RegExp("", <<Lit("coverage-final.json"), EndOfInput>>, {"i"}),
  RegExp("", <<Lit("coverage-summary.json"), EndOfInput>>, {"i"})
>>

ScriptExtensions == <<"js", "jsx", "ts", "tsx">>

TEST_FILE_PATTERNS == <<
  RegExp("", <<Lit("."), Alt(<<"test", "spec">>), Lit("."), Alt(ScriptExtensions),
               EndOfInput>>, {"i"}),
  RegExp("", <<Lit("__tests__"), Rep("slash", 1, 1), AnyChars, Lit("."),
               Alt(ScriptExtensions), EndOfInput>>, {"i"}),
  RegExp("", <<Lit("test_"), AnyChars, Lit(".py"), EndOfInput>>, {"i"}),
  RegExp("", <<AnyChars, Lit("_test.py"), EndOfInput>>, {"i"}),
  RegExp("", <<Lit("tests"), Rep("slash", 1, 1), AnyChars, Lit(".py"), EndOfInput>>, {"i"}),
  RegExp("", <<Lit("Test.java"), EndOfInput>>, {"i"}),
  RegExp("", <<AnyChars, Lit("Tests.java"), EndOfInput>>, {"i"}),
  RegExp("", <<AnyChars, Lit("Test.kt"), EndOfInput>>, {"i"}),
  RegExp("", <<Lit("_spec.rb"), EndOfInput>>, {"i"}),
  RegExp("", <<Lit("_test.rb"), EndOfInput>>, {"i"}),
  RegExp("", <<Lit("_test.go"), EndOfInput>>, {"i"}),
  RegExp("", <<Lit("Test"), Rep("s", 0, 1), Lit(".cs"), EndOfInput>>, {"i"}),
  RegExp("", <<Lit("Test.php"), EndOfInput>>, {"i"})
>>

\* patterns.some(pattern => pattern.test(filename))
SomePatternTests(patterns, filename) ==
  \E k \in 1..Len(patterns) : RegExpMatches(patterns[k], filename)

CoverageFilePool ==
  {ChangedFile("src/utils.test.js", "added", 50, 0),
   ChangedFile("src/utils.js", "added", 100, 0),
   ChangedFile("src/old.test.js", "removed", 0, 50),
   ChangedFile("src/newFeature.js", "added", 100, 0),
   ChangedFile("tests/test_api.py", "modified", 8, 2),
   ChangedFile("src/api.py", "modified", 20, 4),
   ChangedFile("src/Legacy.java", "removed", 0, 80),
   ChangedFile("coverage/lcov.info", "modified", 30, 30),
   ChangedFile("README.md", "modified", 3, 1),
   ChangedFile("pkg/server_test.go", "renamed", 0, 0)}

\* the file names of the model's inputs, for which the tests of the file
\* name patterns are tabulated once
PoolFilenames == KnownFilenames \cup {f.filename : f \in CoverageFilePool}

TestFileTable ==
  [name \in PoolFilenames |-> SomePatternTests(TEST_FILE_PATTERNS, name)] @@ <<>>

isTestFile(filename) ==
  IF filename \in PoolFilenames THEN TestFileTable[filename]
  ELSE SomePatternTests(TEST_FILE_PATTERNS, filename)

sourceExtensions ==
  {".js", ".jsx", ".ts", ".tsx", ".py", ".java", ".kt", ".rb",
   ".go", ".cs", ".php", ".swift", ".rs", ".c", ".cpp", ".h"}

isSourceFile(filename) == ToLowerCase(Extname(filename)) \in sourceExtensions

CoverageFileTable ==
  [name \in PoolFilenames |-> SomePatternTests(COVERAGE_PATTERNS, name)] @@ <<>>

isCoverageFile(filename) ==
  IF filename \in PoolFilenames THEN CoverageFileTable[filename]
  ELSE SomePatternTests(COVERAGE_PATTERNS, filename)

\* path.basename(filename, path.extname(filename))
BasenameWithoutExt(filename) ==
  SubSeq(Basename(filename), 1, Len(Basename(filename)) - Len(Extname(filename)))

\* the base name read as the source of a regular expression: "." stands for
\* any character, a letter, a digit, "_" or "-" for itself (the file names of
\* the model hold no other character)
SourceItems(text) ==
  [k \in 1..Len(text) |->
     IF Char(text, k) = "." THEN Rep("any", 1, 1) ELSE Lit(Char(text, k))]

\* the testPatterns of hasMatchingTestFile
TestPatternsFor(baseName) == <<
  RegExp("", SourceItems(baseName) \o <<Lit(".test.")>>, {"i"}),
  RegExp("", SourceItems(baseName) \o <<Lit(".spec.")>>, {"i"}),
  RegExp("", SourceItems(baseName) \o <<Lit("_test.")>>, {"i"}),
  RegExp("", <<Lit("test_")>> \o SourceItems(baseName) \o <<Lit(".")>>, {"i"}),
  RegExp("", SourceItems(baseName) \o <<Lit("Test.")>>, {"i"}),
  RegExp("", SourceItems(baseName) \o <<Lit("Tests.")>>, {"i"})
>>

\* testPatterns.some(pattern => pattern.test(filename)) for the patterns made
\* from the source file's name
MatchingTestTable ==
  [source \in PoolFilenames |->
     [name \in PoolFilenames |->
        SomePatternTests(TestPatternsFor(BasenameWithoutExt(source)), name)] @@ <<>>] @@ <<>>

IsTestFileOf(sourceFilename, filename) ==
  IF sourceFilename \in PoolFilenames /\ filename \in PoolFilenames
  THEN MatchingTestTable[sourceFilename][filename]
  ELSE SomePatternTests(TestPatternsFor(BasenameWithoutExt(sourceFilename)), filename)

\* files.some(f => testPatterns.some(pattern => pattern.test(f.filename)))
hasMatchingTestFile(sourceFilename, fileList) ==
  \E i \in 1..Len(fileList) : IsTestFileOf(sourceFilename, fileList[i].filename)

IsTestEntry(f) == isTestFile(f.filename)

IsSourceEntry(f) == isSourceFile(f.filename) /\ ~isTestFile(f.filename)

IsCoverageEntry(f) == isCoverageFile(f.filename)

\* the file names of a list of file entries
Filenames(entries) == [k \in 1..Len(entries) |-> entries[k].filename]

IsAdded(f) == f.status = "added"

IsRemoved(f) == f.status = "removed"

IsNeitherAddedNorRemoved(f) == f.status # "added" /\ f.status # "removed"

\* the loop of analyzeCoverage over the source files
SourceFilesWithoutTests(sourceFiles, fileList) ==
  LET needsTests(f) == f.status # "removed" /\ ~hasMatchingTestFile(f.filename, fileList)
  IN Filenames(SelectSeq(sourceFiles, needsTests))

\* the result of analyzeCoverage before the status is determined
CoverageLists(fileList, testFiles, sourceFiles, coverageFiles) ==
  [testFilesAdded |-> Filenames(SelectSeq(testFiles, IsAdded)),
   testFilesModified |-> Filenames(SelectSeq(testFiles, IsNeitherAddedNorRemoved)),
   testFilesDeleted |-> Filenames(SelectSeq(testFiles, IsRemoved)),
   coverageFilesChanged |-> Filenames(coverageFiles),
   sourceFilesWithoutTests |-> SourceFilesWithoutTests(sourceFiles, fileList),
   testFilesChanged |-> Len(testFiles),
   sourceFilesChanged |-> Len(sourceFiles)]

\* variant: the check for missing tests comes before the check for removed
\* test files
CoverageStatus_MissingFirst(testsAdded, testsDeleted, withoutTests) ==
  IF testsAdded > 0 /\ testsDeleted = 0
  THEN [status |-> "improved",
        detail |-> "(check-mark) Added " \o ToString(testsAdded) \o " new test file(s)"]
  ELSE IF withoutTests > 0 /\ testsAdded = 0
  THEN [status |-> "missing",
        detail |-> "(memo) " \o ToString(withoutTests) \o " source file(s) may need tests"]
  ELSE IF testsDeleted > testsAdded
  THEN [status |-> "degraded",
        detail |-> "(warning) Removed " \o ToString(testsDeleted - testsAdded)
                     \o " more test file(s) than added"]
  ELSE [status |-> "stable", detail |-> "(check) Test coverage appears stable"]

\* "Determine status": the status and the detail line
CoverageStatus(testsAdded, testsDeleted, withoutTests) ==
  IF testsAdded > 0 /\ testsDeleted = 0
  THEN [status |-> "improved",
        detail |-> "(check-mark) Added " \o ToString(testsAdded) \o " new test file(s)"]
  ELSE IF testsDeleted > testsAdded
  THEN [status |-> "degraded",
        detail |-> "(warning) Removed " \o ToString(testsDeleted - testsAdded)
                     \o " more test file(s) than added"]
  ELSE IF withoutTests > 0 /\ testsAdded = 0
  THEN [status |-> "missing",
        detail |-> "(memo) " \o ToString(withoutTests) \o " source file(s) may need tests"]
  ELSE [status |-> "stable", detail |-> "(check) Test coverage appears stable"]

\* the report of analyzeCoverage from its lists and the status determined
CoverageReport(lists, determined) ==
  [testFilesAdded |-> lists.testFilesAdded,
   testFilesModified |-> lists.testFilesModified,
   testFilesDeleted |-> lists.testFilesDeleted,
   coverageFilesChanged |-> lists.coverageFilesChanged,
   sourceFilesWithoutTests |-> lists.sourceFilesWithoutTests,
   delta |-> Undefined,
   status |-> determined.status,
   details |-> <<determined.detail>>,
   summary |-> [testFilesChanged |-> lists.testFilesChanged,
                sourceFilesChanged |-> lists.sourceFilesChanged,
                netTestChange |-> Len(lists.testFilesAdded) - Len(lists.testFilesDeleted),
                filesNeedingTests |-> Len(lists.sourceFilesWithoutTests)]]

CoverageOutcome(lists) ==
  [status |-> "returned",
   report |-> CoverageReport(lists,
                CoverageStatus(Len(lists.testFilesAdded), Len(lists.testFilesDeleted),
                               Len(lists.sourceFilesWithoutTests)))]

\* analyzeCoverage(files, {threshold}); the threshold is not used
analyzeCoverage(fileList, opts) ==
  CoverageOutcome(CoverageLists(fileList, SelectSeq(fileList, IsTestEntry),
                                SelectSeq(fileList, IsSourceEntry),
                                SelectSeq(fileList, IsCoverageEntry)))

CoverageOptions == {[threshold |-> 80]}

InitCoverage ==
  /\ fn = "analyzeCoverage"
  /\ files \in SeqsUpTo(CoverageFilePool, MaxFiles)
  /\ diff = Undefined
  /\ options \in CoverageOptions
  /\ returned = <<>>
  /\ InitRegExps
  /\ CalledDirectly

CallAnalyzeCoverage ==
  /\ fn = "analyzeCoverage"
  /\ Len(returned) < MaxCalls
  /\ returned' = Append(returned, analyzeCoverage(files, options))
  /\ UNCHANGED <<fn, files, diff, options, lastIndex, runVars>>

NextCoverage == CallAnalyzeCoverage

SpecCoverage == InitCoverage /\ [][NextCoverage]_vars

(***************************************************************************)
(* Properties of the coverage report.                                      *)
(***************************************************************************)
\* the reports analyzeCoverage has returned for the current arguments
CoverageReports ==
  {returned[k].report :
     k \in {j \in 1..Len(returned) : fn = "analyzeCoverage" /\ returned[j].status = "returned"}}

\* the entries of the file list that are test files with the given status
\* ("other" for a status that is neither added nor removed)
TestEntries(kind) ==
  {i \in 1..Len(files) :
     /\ isTestFile(files[i].filename)
     /\ CASE kind = "added" -> files[i].status = "added"
          [] kind = "removed" -> files[i].status = "removed"
          [] OTHER -> files[i].status \notin {"added", "removed"}}

\* some source file of the list that is not removed has no matching test file
\* in the list
SomeSourceLacksTests ==
  \E i \in 1..Len(files) :
     /\ isSourceFile(files[i].filename) /\ ~isTestFile(files[i].filename)
     /\ files[i].status # "removed"
     /\ ~hasMatchingTestFile(files[i].filename, files)

\* C16: every test file is in exactly one of testFilesAdded, testFilesDeleted
\* and testFilesModified, the one of its status; the status is improved when
\* a test file was added and none removed, else degraded when more were
\* removed than added, else missing when none was added and a source file
\* that is not removed has no matching test file, else stable; never unknown.
C16_CoverageStatusPrecedence ==
  \A r \in CoverageReports :
     LET added == Cardinality(TestEntries("added"))
         removed == Cardinality(TestEntries("removed"))
     IN /\ Len(r.testFilesAdded) = added
        /\ Len(r.testFilesDeleted) = removed
        /\ Len(r.testFilesModified) = Cardinality(TestEntries("other"))
        /\ \A i \in TestEntries("added") : files[i].filename \in SeqToSet(r.testFilesAdded)
        /\ \A i \in TestEntries("removed") : files[i].filename \in SeqToSet(r.testFilesDeleted)
        /\ \A i \in TestEntries("other") : files[i].filename \in SeqToSet(r.testFilesModified)
        /\ r.status = IF added > 0 /\ removed = 0 THEN "improved"
                      ELSE IF removed > added THEN "degraded"
                      ELSE IF added = 0 /\ SomeSourceLacksTests THEN "missing"
                      ELSE "stable"
        /\ r.status # "unknown"

\* a removed test file next to a new source file without tests: degraded, not
\* missing
C16_Witness ==
  \E r \in CoverageReports :
     /\ r.testFilesDeleted = <<"src/old.test.js">>
     /\ r.sourceFilesWithoutTests = <<"src/newFeature.js">>
     /\ r.status = "degraded"

(***************************************************************************)
(* Documentation analyzer, src/analyzers/docs.js                           *)
(***************************************************************************)
\* /<folder>[\/\\].*\.md$/i
MarkdownUnder(folder) ==
  RegExp("", <<Lit(folder), Rep("slash", 1, 1), AnyChars, Lit(".md"), EndOfInput>>, {"i"})

ReadmePattern == RegExp("", <<Lit("readme.md"), EndOfInput>>, {"i"})

ChangelogPattern == RegExp("", <<Lit("changelog.md"), EndOfInput>>, {"i"})

DOC_FILE_PATTERNS == <<
  ReadmePattern,
  ChangelogPattern,
  RegExp("", <<Lit("contributing.md"), EndOfInput>>, {"i"}),
  MarkdownUnder("docs"),
  MarkdownUnder("documentation"),
  MarkdownUnder(".github"),
  MarkdownUnder("wiki"),
  MarkdownUnder("api"),
  RegExp("", <<Lit("guide"), Rep("s", 0, 1), Rep("slash", 1, 1), AnyChars, Lit(".md"),
               EndOfInput>>, {"i"})
>>

Trigger(pattern, docHint) == [pattern |-> pattern, docHint |-> docHint]

DOC_TRIGGER_PATTERNS == <<
  Trigger("**/api/**", "API documentation may need updates"),
  Trigger("**/routes/**", "API documentation may need updates"),
  Trigger("**/endpoints/**", "API documentation may need updates"),
  Trigger("**/public/**", "Public API documentation may need updates"),
  Trigger("**/exports/**", "Module documentation may need updates"),
  Trigger("**/config/**", "Configuration documentation may need updates"),
  Trigger("**/*.config.*", "Configuration documentation may need updates"),
  Trigger("**/action.yml", "Action documentation may need updates"),
  Trigger("**/cli/**", "CLI documentation may need updates"),
  Trigger("**/commands/**", "Command documentation may need updates"),
  Trigger("**/bin/**", "CLI documentation may need updates"),
  Trigger("**/breaking-changes*", "Migration guide may be needed"),
  Trigger("**/migration*", "Migration documentation may need updates")
>>

INLINE_DOC_EXTENSIONS == {".js", ".ts", ".jsx", ".tsx", ".py", ".java", ".go", ".rs"}

DocFileTable ==
  [name \in PoolFilenames |-> SomePatternTests(DOC_FILE_PATTERNS, name)] @@ <<>>

isDocFile(filename) ==
  IF filename \in PoolFilenames THEN DocFileTable[filename]
  ELSE SomePatternTests(DOC_FILE_PATTERNS, filename)

isSignificantFile(filename) == ToLowerCase(Extname(filename)) \in INLINE_DOC_EXTENSIONS

hasRelatedDocFile(filename, fileList) ==
  \E i \in 1..Len(fileList) :
     /\ isDocFile(fileList[i].filename)
     /\ Includes(ToLowerCase(fileList[i].filename), ToLowerCase(BasenameWithoutExt(filename)))

\* shouldIgnore(filename, patterns): "true", "false" or "throw"
shouldIgnore(filename, patterns) == IgnoreSome(filename, patterns, 1)

\* the first trigger whose pattern matches the file name, 0 when none does
FirstTrigger(filename) ==
  LET matches(k) == Minimatch(filename, DOC_TRIGGER_PATTERNS[k].pattern)
  IN Least(1, Len(DOC_TRIGGER_PATTERNS), matches)

FirstTriggerTable == [name \in PoolFilenames |-> FirstTrigger(name)] @@ <<>>

TriggerOf(filename) ==
  IF filename \in PoolFilenames THEN FirstTriggerTable[filename] ELSE FirstTrigger(filename)

\* /api|public|export/i.test(filename)
ApiNamePattern == RegExp("", <<Alt(<<"api", "public", "export">>)>>, {"i"})

\* files.filter(f => !isDocFile(f.filename) && !shouldIgnore(f.filename,
\* ignorePatterns)) from the i-th file on; threw when minimatch throws
RECURSIVE DocSourceFiles(_, _, _, _)
RECURSIVE DocSourceKeep(_, _, _, _, _)
DocSourceFiles(fileList, ignorePatterns, i, kept) ==
  IF i > Len(fileList) THEN [threw |-> FALSE, files |-> kept]
  ELSE IF isDocFile(fileList[i].filename)
  THEN DocSourceFiles(fileList, ignorePatterns, i + 1, kept)
  ELSE DocSourceKeep(fileList, ignorePatterns, i, kept,
                     shouldIgnore(fileList[i].filename, ignorePatterns))

DocSourceKeep(fileList, ignorePatterns, i, kept, ignored) ==
  IF ignored = "throw" THEN [threw |-> TRUE, files |-> kept]
  ELSE DocSourceFiles(fileList, ignorePatterns, i + 1,
                      IF ignored = "true" THEN kept ELSE Append(kept, fileList[i]))

IsDocEntry(f) == isDocFile(f.filename)

IsNotRemoved(f) == f.status # "removed"

IsReadme(f) == RegExpMatches(ReadmePattern, f.filename)

IsChangelog(f) == RegExpMatches(ChangelogPattern, f.filename)

HasTrigger(f) == f.status # "removed" /\ TriggerOf(f.filename) # 0

TriggerEntry(f) ==
  [filename |-> f.filename,
   hint |-> DOC_TRIGGER_PATTERNS[TriggerOf(f.filename)].docHint,
   status |-> f.status]

IsSignificantNew(f) ==
  f.status = "added" /\ isSignificantFile(f.filename) /\ f.additions > 50

IsApiChange(f) == RegExpMatches(ApiNamePattern, f.filename) /\ f.status # "removed"

\* the lists and flags of the result of analyzeDocs
DocLists(fileList, docFiles, sourceFiles) ==
  LET undocumented(f) == IsSignificantNew(f) /\ ~hasRelatedDocFile(f.filename, fileList)
      triggering == SelectSeq(sourceFiles, HasTrigger)
      missing == SelectSeq(sourceFiles, undocumented)
  IN [missingDocs |-> [k \in 1..Len(missing) |->
                         [filename |-> missing[k].filename,
                          additions |-> missing[k].additions,
                          reason |-> "New significant file without documentation"]],
      docFilesModified |->
        Filenames(SelectSeq(docFiles, IsNeitherAddedNorRemoved)),
      docFilesAdded |-> Filenames(SelectSeq(docFiles, IsAdded)),
      triggersNeedingDocs |-> [k \in 1..Len(triggering) |-> TriggerEntry(triggering[k])],
      readmeUpdated |-> \E k \in 1..Len(docFiles) : IsReadme(docFiles[k]),
      changelogUpdated |-> \E k \in 1..Len(docFiles) : IsChangelog(docFiles[k]),
      hasApiChanges |-> \E k \in 1..Len(sourceFiles) : IsApiChange(sourceFiles[k]),
      docFilesChanged |-> Len(docFiles)]

\* the line when the condition holds, nothing otherwise
LineIf(condition, line) == IF condition THEN <<line>> ELSE <<>>

\* "Generate details and suggestions"
DocDetails(lists) ==
  LineIf(Len(lists.docFilesAdded) > 0,
         "(books) " \o ToString(Len(lists.docFilesAdded)) \o " documentation file(s) added")
  \o LineIf(Len(lists.docFilesModified) > 0,
            "(memo) " \o ToString(Len(lists.docFilesModified))
              \o " documentation file(s) updated")
  \o LineIf(lists.readmeUpdated, "(check-mark) README.md was updated")
  \o LineIf(lists.changelogUpdated, "(check-mark) CHANGELOG.md was updated")
  \o LineIf(Len(lists.triggersNeedingDocs) > 0 /\ Len(lists.docFilesModified) = 0,
            "(warning) " \o ToString(Len(lists.triggersNeedingDocs))
              \o " file(s) may need documentation updates")
  \o LineIf(Len(lists.missingDocs) > 0,
            "(clipboard) " \o ToString(Len(lists.missingDocs))
              \o " new file(s) may need documentation")

Suggestion(type, message, names) == [type |-> type, message |-> message, files |-> names]

DocSuggestions(lists) ==
  LineIf(Len(lists.triggersNeedingDocs) > 0 /\ Len(lists.docFilesModified) = 0,
         Suggestion("warning",
                    "API or config changes detected but no documentation updates found",
                    Filenames(SubSeq(lists.triggersNeedingDocs, 1,
                                     IF Len(lists.triggersNeedingDocs) > 5 THEN 5
                                     ELSE Len(lists.triggersNeedingDocs)))))
  \o LineIf(Len(lists.missingDocs) > 0,
            Suggestion("info", "New significant files may benefit from documentation",
                       Filenames(lists.missingDocs)))
  \o LineIf(lists.hasApiChanges /\ ~lists.changelogUpdated,
            Suggestion("info", "Consider updating CHANGELOG.md for API changes", <<>>))

DocReport(lists) ==
  [missingDocs |-> lists.missingDocs,
   docFilesModified |-> lists.docFilesModified,
   docFilesAdded |-> lists.docFilesAdded,
   triggersNeedingDocs |-> lists.triggersNeedingDocs,
   readmeUpdated |-> lists.readmeUpdated,
   changelogUpdated |-> lists.changelogUpdated,
   details |-> DocDetails(lists),
   suggestions |-> DocSuggestions(lists),
   summary |-> [docFilesChanged |-> lists.docFilesChanged,
                triggersFound |-> Len(lists.triggersNeedingDocs),
                missingDocs |-> Len(lists.missingDocs),
                readmeUpdated |-> lists.readmeUpdated,
                changelogUpdated |-> lists.changelogUpdated]]

\* the outcome of analyzeDocs once the source files are separated
DocOutcome(fileList, sources) ==
  IF sources.threw THEN [status |-> "threw", error |-> "TypeError"]
  ELSE [status |-> "returned",
        report |-> DocReport(DocLists(fileList, SelectSeq(fileList, IsDocEntry),
                                      sources.files))]

\* analyzeDocs(files, {ignorePatterns})
analyzeDocs(fileList, opts) ==
  DocOutcome(fileList, DocSourceFiles(fileList, opts.ignorePatterns, 1, <<>>))

(***************************************************************************)
(* Comment reporter, src/reporters/comment.js (listed in                   *)
(* docs/configuration.md)                                                  *)
(***************************************************************************)
COMMENT_SIGNATURE ==
  "\n\n---\n(robot) *Powered by [PR Reviewer Assistant]"
    \o "(https://github.com/tommieseals/pr-reviewer-action)*"

COMMENT_IDENTIFIER == "<!-- pr-reviewer-action -->"

\* array.slice(0, n)
Slice(array, n) == SubSeq(array, 1, IF Len(array) > n THEN n ELSE Len(array))

\* the lines made from the entries of a list
LinesFrom(entries, line(_)) == [k \in 1..Len(entries) |-> line(entries[k])]

\* the line "... and N more" when the list has more than n entries
MoreLine(entries, n, before, after) ==
  LineIf(Len(entries) > n, before \o ToString(Len(entries) - n) \o after)

\* a <details> block listing file names, nothing for an empty list (the
\* backtick of a code span is written as ')
NameBlock(names, title) ==
  LET item(name) == "- '" \o name \o "'"
  IN IF Len(names) = 0 THEN <<>>
     ELSE <<"\n<details>", "<summary>" \o title \o "</summary>\n">>
            \o LinesFrom(Slice(names, 10), item)
            \o MoreLine(names, 10, "- ... and ", " more")
            \o <<"</details>">>

formatQuickStats(summary) ==
  LET risk == summary.risk.summary
      net == summary.coverage.summary.netTestChange
  IN Join(<<"| Metric | Value |",
            "|--------|-------|",
            "| Files Analyzed | " \o ToString(summary.meta.filesAnalyzed) \o " |",
            "| Lines Added | +" \o ToString(summary.complexity.summary.totalAdditions) \o " |",
            "| Lines Removed | -" \o ToString(summary.complexity.summary.totalDeletions)
              \o " |",
            "| Risk Files | "
              \o (IF risk.highRisk > 0 THEN "(rotating-light)"
                  ELSE IF risk.mediumRisk > 0 THEN "(warning)" ELSE "(check-mark)")
              \o " " \o ToString(risk.totalRiskFiles) \o " |",
            "| Test Files Changed | "
              \o (IF net > 0 THEN "(chart-up)" ELSE IF net < 0 THEN "(chart-down)"
                  ELSE "(right-arrow)")
              \o " " \o ToString(summary.coverage.summary.testFilesChanged) \o " |">>,
          "\n")

statusBadge(status) ==
  "![Coverage](https://img.shields.io/badge/coverage-"
    \o (CASE status = "improved" -> "improved-brightgreen"
          [] status = "stable" -> "stable-green"
          [] status = "degraded" -> "degraded-red"
          [] status = "missing" -> "needs_attention-yellow"
          [] OTHER -> "unknown-lightgrey")
    \o ")"

formatCoverage(coverage) ==
  Join(<<statusBadge(coverage.status), "">>
         \o coverage.details
         \o NameBlock(coverage.testFilesAdded, "(check-mark) Test Files Added")
         \o NameBlock(coverage.sourceFilesWithoutTests, "(memo) Files That May Need Tests"),
       "\n")

IsHighRisk(f) == f.severity = "high"

IsMediumRisk(f) == f.severity = "medium"

formatRisk(risk) ==
  LET highRiskFiles == SelectSeq(risk.files, IsHighRisk)
      mediumRiskFiles == SelectSeq(risk.files, IsMediumRisk)
      row(f) == "| '" \o f.filename \o "' | " \o Join(f.categories, ", ") \o " | "
                  \o f.messages[1] \o " |"
      item(f) == "- '" \o f.filename \o "' - " \o f.messages[1]
  IN Join(risk.details
            \o (IF Len(highRiskFiles) = 0 THEN <<>>
                ELSE <<"\n<details open>",
                       "<summary>(rotating-light) High Risk Files (Require Review)</summary>\n",
                       "| File | Category | Reason |",
                       "|------|----------|--------|">>
                       \o LinesFrom(Slice(highRiskFiles, 10), row)
                       \o MoreLine(highRiskFiles, 10, "\n*... and ", " more high-risk files*")
                       \o <<"</details>">>)
            \o (IF Len(mediumRiskFiles) = 0 THEN <<>>
                ELSE <<"\n<details>", "<summary>(warning) Medium Risk Files</summary>\n">>
                       \o LinesFrom(Slice(mediumRiskFiles, 10), item)
                       \o MoreLine(mediumRiskFiles, 10, "- ... and ", " more")
                       \o <<"</details>">>),
          "\n")

formatDocs(docs) ==
  LET item(suggestion) ==
        "- " \o (IF suggestion.type = "warning" THEN "(warning)" ELSE "(information)")
          \o " " \o suggestion.message
  IN Join(docs.details
            \o (IF Len(docs.suggestions) = 0 THEN <<>>
                ELSE <<"\n**Suggestions:**">> \o LinesFrom(docs.suggestions, item)),
          "\n")

formatComplexity(complexity) ==
  LET row(warning) ==
        "| " \o (IF warning.severity = "high" THEN "(red-circle)"
                 ELSE IF warning.severity = "medium" THEN "(yellow-circle)"
                 ELSE "(green-circle)")
          \o " " \o warning.severity \o " | '" \o warning.filename \o "' | "
          \o warning.message \o " |"
      item(smell) ==
        "- '" \o smell.filename \o "': " \o smell.message \o " (" \o ToString(smell.count)
          \o " occurrence" \o (IF smell.count > 1 THEN "s" ELSE "") \o ")"
  IN Join(complexity.details
            \o (IF Len(complexity.warnings) = 0 THEN <<>>
                ELSE <<"\n<details>", "<summary>(magnifier) Detailed Warnings</summary>\n",
                       "| Severity | File | Issue |",
                       "|----------|------|-------|">>
                       \o LinesFrom(Slice(complexity.warnings, 15), row)
                       \o MoreLine(complexity.warnings, 15, "\n*... and ", " more warnings*")
                       \o <<"</details>">>)
            \o (IF Len(complexity.codeSmells) = 0 THEN <<>>
                ELSE <<"\n<details>", "<summary>(nose) Code Smells</summary>\n">>
                       \o LinesFrom(Slice(complexity.codeSmells, 10), item)
                       \o MoreLine(complexity.codeSmells, 10, "- ... and ", " more")
                       \o <<"</details>">>),
          "\n")

\* summary.ai?.summary is truthy
HasAISummary(summary) == summary.ai.t = "object" /\ summary.ai.summary # ""

\* formatComment(summary) for a summary holding the four reports
formatComment(summary) ==
  Join(<<COMMENT_IDENTIFIER, "# (magnifier) PR Review Summary\n">>
         \o (IF HasAISummary(summary)
             THEN <<"## (robot) AI Analysis\n", summary.ai.summary, "">> ELSE <<>>)
         \o <<"## (chart) Quick Stats\n", formatQuickStats(summary),
              "\n## (test-tube) Test Coverage\n", formatCoverage(summary.coverage)>>
         \o (IF Len(summary.risk.files) > 0
             THEN <<"\n## (warning) Risk Analysis\n", formatRisk(summary.risk)>> ELSE <<>>)
         \o <<"\n## (books) Documentation\n", formatDocs(summary.docs)>>
         \o (IF Len(summary.complexity.warnings) > 0
             THEN <<"\n## (shuffle) Complexity\n", formatComplexity(summary.complexity)>>
             ELSE <<>>)
         \o <<COMMENT_SIGNATURE>>,
       "\n")

\* a comment of the pull request; body is a text or undefined
Comment(id, body) == [id |-> id, body |-> body]

\* the number of comments octokit.rest.issues.listComments is asked for
PerPage == 100

\* the data of the listComments response: the first page
listComments(commentList) == Slice(commentList, PerPage)

\* c.body?.includes(COMMENT_IDENTIFIER)
CarriesIdentifier(c) == c.body.t = "string" /\ Includes(c.body.s, COMMENT_IDENTIFIER)

\* findExistingComment: the first comment of the page that carries the
\* identifier, undefined when there is none
findExistingComment(commentList) ==
  LET page == listComments(commentList)
      carries(k) == CarriesIdentifier(page[k])
      first == Least(1, Len(page), carries)
  IN IF first = 0 THEN Undefined
     ELSE [t |-> "object", id |-> page[first].id]

\* the id GitHub gives to a new comment
NewCommentId(commentList) ==
  1 + (IF Len(commentList) = 0 THEN 0
       ELSE CHOOSE m \in {commentList[k].id : k \in 1..Len(commentList)} :
              \A k \in 1..Len(commentList) : commentList[k].id <= m)

\* octokit.rest.issues.updateComment({comment_id, body})
updateComment(commentList, id, body) ==
  [k \in 1..Len(commentList) |->
     IF commentList[k].id = id THEN Comment(id, Str(body)) ELSE commentList[k]]

\* octokit.rest.issues.createComment({issue_number, body})
createComment(commentList, body) ==
  Append(commentList, Comment(NewCommentId(commentList), Str(body)))

\* variant: only mode update looks for an existing comment
LooksForExisting_OnlyUpdate(mode) == mode = "update"

\* the modes in which postComment looks for an existing comment
LooksForExisting(mode) == mode = "update" \/ mode = "both"


(***************************************************************************)
(* postComment(octokit, context, summary, {mode}), one step per request to *)
(* the GitHub API.  The effects of a run are logged in order; every entry  *)
(* is [op, name, value] with texts only.                                   *)
(***************************************************************************)
Effect(op, name, value) == [op |-> op, name |-> name, value |-> value]

\* const { mode = 'update' } = options
ModeOf(opts) == IF opts.mode.t = "undefined" THEN "update" ELSE opts.mode.s

\* the summary object run() builds from the reports and the AI summary
Summary(res, ai, fileList) ==
  [coverage |-> res.coverage, risk |-> res.risk, docs |-> res.docs,
   complexity |-> res.complexity, ai |-> ai,
   meta |-> [filesAnalyzed |-> Len(fileList)]]

\* the comment body of the current call
Body == formatComment(Summary(results, aiSummary, files))

\* where the caller of postComment continues
AfterPost == IF fn = "run" THEN "finish" ELSE "done"

\* the mode postComment is called with
CurrentMode ==
  IF fn = "run" THEN (IF options.commentMode = "" THEN "update" ELSE options.commentMode)
  ELSE ModeOf(options)

\* findExistingComment: the request for the comments of the pull request
FindExisting ==
  /\ pc = "post"
  /\ LooksForExisting(CurrentMode)
  /\ existingComment' = findExistingComment(comments)
  /\ effects' = Append(effects, Effect("listComments", "per_page", ToString(PerPage)))
  /\ pc' = "found"
  /\ UNCHANGED <<fn, files, diff, options, returned, lastIndex, comments, results, aiSummary>>

\* the existing comment is updated and postComment returns
UpdateExisting ==
  /\ pc = "found"
  /\ existingComment # Undefined
  /\ \E body \in {Body} :
        /\ comments' = updateComment(comments, existingComment.id, body)
        /\ effects' = Append(effects, Effect("updateComment",
                                             ToString(existingComment.id), body))
  /\ returned' = Append(returned, [status |-> "returned",
                                   report |-> [action |-> "updated",
                                               commentId |-> existingComment.id]])
  /\ pc' = AfterPost
  /\ UNCHANGED <<fn, files, diff, options, lastIndex, results, aiSummary, existingComment>>

\* a new comment is created and postComment returns
CreateNew ==
  /\ \/ pc = "post" /\ ~LooksForExisting(CurrentMode)
     \/ pc = "found" /\ existingComment = Undefined
  /\ \E body \in {Body} :
        /\ comments' = createComment(comments, body)
        /\ effects' = Append(effects, Effect("createComment",
                                             ToString(NewCommentId(comments)), body))
  /\ returned' = Append(returned, [status |-> "returned",
                                   report |-> [action |-> "created",
                                               commentId |-> NewCommentId(comments)]])
  /\ pc' = AfterPost
  /\ UNCHANGED <<fn, files, diff, options, lastIndex, results, aiSummary, existingComment>>

(***************************************************************************)
(* run(), src/index.js                                                     *)
(***************************************************************************)
\* the four analyzers of Promise.all, in the order they are called; the
\* reports when all of them return
Analyzed(coverage, risk, docs, complexity) ==
  IF \E outcome \in {coverage, risk, docs, complexity.outcome} : outcome.status = "threw"
  THEN [threw |-> TRUE, reports |-> Null, li |-> complexity.li]
  ELSE [threw |-> FALSE,
        reports |-> [t |-> "object",
                     coverage |-> coverage.report, risk |-> risk.report,
                     docs |-> docs.report, complexity |-> complexity.outcome.report],
        li |-> complexity.li]

Analyze(fileList, d, riskPatterns, ignorePatterns, li) ==
  Analyzed(analyzeCoverage(fileList, [threshold |-> 80]),
           analyzeRisk(fileList, [customPatterns |-> riskPatterns,
                                  ignorePatterns |-> ignorePatterns]),
           analyzeDocs(fileList, [ignorePatterns |-> ignorePatterns]),
           analyzeComplexity(fileList, d, [ignorePatterns |-> ignorePatterns], li))


(***************************************************************************)
(* AI summary, src/ai/summary.js                                           *)
(***************************************************************************)
PROVIDERS ==
  [openai |-> [defaultModel |-> "gpt-4o-mini",
               url |-> "https://api.openai.com/v1/chat/completions"],
   anthropic |-> [defaultModel |-> "claude-3-haiku-20240307",
                  url |-> "https://api.anthropic.com/v1/messages"],
   ollama |-> [defaultModel |-> "llama3.2", url |-> "/api/generate"]]

\* the url of providerConfig.formatRequest(prompt, model, apiKey, ollamaUrl)
RequestUrl(provider, ollamaUrl) ==
  IF provider = "ollama" THEN ollamaUrl \o PROVIDERS[provider].url
  ELSE PROVIDERS[provider].url

\* what makeRequest and parseResponse can give: a summary text, an empty
\* text, or a failed request
AIResponses == {"Adds a users table and an API client.", "", "error"}

\* generateAISummary(files, diff, {provider, apiKey, model, ollamaUrl}) for
\* a given answer of the provider: the request made, if any, and the outcome
generateAISummary(provider, model, ollamaUrl, response) ==
  IF provider \notin DOMAIN PROVIDERS
  THEN [requested |-> "", status |-> "threw",
        error |-> "Unknown AI provider: " \o provider, value |-> Null]
  ELSE LET url == RequestUrl(provider, ollamaUrl)
           modelToUse == IF model # "" THEN model ELSE PROVIDERS[provider].defaultModel
       IN CASE response = "error" ->
                 [requested |-> url, status |-> "threw", error |-> "Request failed",
                  value |-> Null]
            [] response = "" ->
                 [requested |-> url, status |-> "threw",
                  error |-> "Failed to generate AI summary: empty response",
                  value |-> Null]
            [] OTHER ->
                 [requested |-> url, status |-> "returned", error |-> "",
                  value |-> [t |-> "object", provider |-> provider,
                             model |-> modelToUse, summary |-> response]]

(***************************************************************************)
(* The inputs of a run, as core.getInput gives them ("" for an input that  *)
(* is not set), and the event that started it.                             *)
(***************************************************************************)
enableAI == options.enableAISummary = "true"

aiProvider == IF options.aiProvider = "" THEN "openai" ELSE options.aiProvider

aiApiKey == options.aiApiKey

aiModel == IF options.aiModel = "" THEN "gpt-4o-mini" ELSE options.aiModel

ollamaUrl == IF options.ollamaUrl = "" THEN "http://localhost:11434" ELSE options.ollamaUrl

failOnRisk == options.failOnRisk = "true"

\* per_page of pulls.listFiles: parseInt(core.getInput('max-files') || '100')
maxFiles == 100

\* the three AI settings of the inputs: off, OpenAI with a key, a local
\* Ollama without a key, an unknown provider with a key
AISettings ==
  {[enableAISummary |-> "false", aiProvider |-> "", aiApiKey |-> "", aiModel |-> "",
    ollamaUrl |-> ""],
   [enableAISummary |-> "true", aiProvider |-> "", aiApiKey |-> "sk-key", aiModel |-> "",
    ollamaUrl |-> ""],
   [enableAISummary |-> "true", aiProvider |-> "ollama", aiApiKey |-> "",
    aiModel |-> "codellama", ollamaUrl |-> "http://ollama:11434"],
   [enableAISummary |-> "true", aiProvider |-> "gemini", aiApiKey |-> "key",
    aiModel |-> "", ollamaUrl |-> ""]}

\* the inputs of a run with the given lists; jsonValid is false when the
\* text of risk-patterns (or of ignore-patterns) is not JSON
RunInputsWith(jsonValid, riskLists, ignoreLists) ==
  {[event |-> event, jsonValid |-> jsonValid,
    riskPatterns |-> riskPatterns, ignorePatterns |-> ignorePatterns,
    enableAISummary |-> ai.enableAISummary, aiProvider |-> ai.aiProvider,
    aiApiKey |-> ai.aiApiKey, aiModel |-> ai.aiModel, ollamaUrl |-> ai.ollamaUrl,
    failOnRisk |-> fail, commentMode |-> mode] :
     event \in {"pull_request", "push"},
     riskPatterns \in riskLists,
     ignorePatterns \in ignoreLists,
     ai \in AISettings,
     fail \in {"true", "false", ""},
     mode \in {"", "create"}}

\* the inputs of the runs: with lists that are read, and with a text that is
\* not JSON, for which no list is read
RunInputs ==
  RunInputsWith(TRUE,
                {<<>>, <<CustomRule(Undefined, Str("financial"), Str("high"), Undefined)>>},
                {<<>>, <<Str("**/vendor/**")>>})
    \cup RunInputsWith(FALSE, {<<>>}, {<<>>})

\* the changed files of the pull requests of the runs
RunFilePool ==
  {ChangedFile("migrations/20240101_add_users.sql", "added", 50, 0),
   ChangedFile("src/app.js", "modified", 300, 0),
   ChangedFile("vendor/api/client.js", "added", 350, 0)}

\* the diffs of the pull requests of the runs
RunDiffs ==
  {Str(DiffSection("src/app.js", "src/app.js", SpacedBranches)
         \o DiffSection("vendor/api/client.js", "vendor/api/client.js", VendorBody))}

\* a review comment an earlier run has posted
EarlierReview == Str(COMMENT_IDENTIFIER \o "\n# (magnifier) PR Review Summary\n")

InitRun ==
  /\ fn = "run"
  /\ files \in SeqsUpTo(RunFilePool, MaxFiles)
  /\ diff \in RunDiffs
  /\ options \in RunInputs
  /\ comments \in {<<>>, <<Comment(1, Str("LGTM")), Comment(2, EarlierReview)>>}
  /\ returned = <<>>
  /\ InitRegExps
  /\ pc = "start"
  /\ effects = <<>>
  /\ results = Null
  /\ aiSummary = Null
  /\ existingComment = Undefined

\* variant: every event is taken for a pull request event
IsPullRequestEvent_Always(inputs) == TRUE

\* line 30: context.payload.pull_request is there
IsPullRequestEvent(inputs) == inputs.event = "pull_request"

\* lines 11-38 and the catch of line 114: the inputs are read, where
\* JSON.parse throws on a text that is not JSON, and the event is looked at
RunStart ==
  /\ fn = "run"
  /\ pc = "start"
  /\ IF ~options.jsonValid
     THEN /\ effects' = <<Effect("setFailed", "", "Action failed: ")>>
          /\ pc' = "done"
     ELSE IF ~IsPullRequestEvent(options)
     THEN /\ effects' = <<Effect("info", "", "Not a pull request event, skipping...")>>
          /\ pc' = "done"
     ELSE /\ effects' = <<Effect("info", "", "(magnifier) Analyzing PR")>>
          /\ pc' = "fetch"
  /\ UNCHANGED <<fn, files, diff, options, returned, lastIndex, comments, results,
                 aiSummary, existingComment>>

\* lines 41-56: the changed files and the diff are requested
RunFetch ==
  /\ fn = "run"
  /\ pc = "fetch"
  /\ effects' = effects
                  \o <<Effect("listFiles", "per_page", ToString(maxFiles)),
                       Effect("info", "", "(folder) Found " \o ToString(Len(files))
                                            \o " changed files"),
                       Effect("pulls.get", "format", "diff")>>
  /\ pc' = "analyze"
  /\ UNCHANGED <<fn, files, diff, options, returned, lastIndex, comments, results,
                 aiSummary, existingComment>>

\* lines 59-64 and the catch of line 114: the analyzers run; when one of them
\* rejects, the action fails
RunAnalyze ==
  /\ fn = "run"
  /\ pc = "analyze"
  /\ \E call \in {Analyze(Slice(files, maxFiles), diff, options.riskPatterns,
                          options.ignorePatterns, lastIndex)} :
        /\ lastIndex' = call.li
        /\ results' = call.reports
        /\ IF call.threw
           THEN /\ effects' = Append(effects, Effect("setFailed", "", "Action failed: "))
                /\ pc' = "done"
           ELSE /\ effects' = effects
                /\ pc' = "ai"
  /\ UNCHANGED <<fn, files, diff, options, returned, comments, aiSummary, existingComment>>

\* variant: a failed call leaves no warning
AILog_NoWarning(call) ==
  <<Effect("info", "", "(robot) Generating AI summary...")>>
    \o (IF call.requested = "" THEN <<>> ELSE <<Effect("request", call.requested, "POST")>>)

\* the log of lines 69-79 for one call of generateAISummary
AILog(call) ==
  <<Effect("info", "", "(robot) Generating AI summary...")>>
    \o (IF call.requested = "" THEN <<>> ELSE <<Effect("request", call.requested, "POST")>>)
    \o (IF call.status = "threw"
        THEN <<Effect("warning", "", "AI summary failed: " \o call.error)>> ELSE <<>>)

\* lines 67-80: the AI summary, when it is enabled and there is an API key
RunAISummary ==
  /\ fn = "run"
  /\ pc = "ai"
  /\ IF enableAI /\ aiApiKey # ""
     THEN \E response \in AIResponses :
            \E call \in {generateAISummary(aiProvider, aiModel, ollamaUrl, response)} :
               /\ aiSummary' = call.value
               /\ effects' = effects \o AILog(call)
     ELSE UNCHANGED <<aiSummary, effects>>
  /\ pc' = "outputs"
  /\ UNCHANGED <<fn, files, diff, options, returned, lastIndex, comments, results,
                 existingComment>>

\* lines 97-101
Outputs(res) ==
  <<Effect("setOutput", "coverage-delta", "0"),
    Effect("setOutput", "risk-files", ToString(Len(res.risk.files))),
    Effect("setOutput", "missing-docs", ToString(Len(res.docs.missingDocs))),
    Effect("setOutput", "complexity-warnings", ToString(Len(res.complexity.warnings))),
    Effect("setOutput", "summary", "JSON.stringify(summary)")>>

RunSetOutputs ==
  /\ fn = "run"
  /\ pc = "outputs"
  /\ effects' = effects \o Outputs(results)
  /\ pc' = "post"
  /\ UNCHANGED <<fn, files, diff, options, returned, lastIndex, comments, results,
                 aiSummary, existingComment>>

\* variant: the fail-on-risk input is not looked at
FailsOnRisk_IgnoresInput(fail, res) == res.risk.highRiskCount > 0

\* line 107
FailsOnRisk(fail, res) == fail /\ res.risk.highRiskCount > 0

\* lines 106-112: after the comment is posted
RunFinish ==
  /\ fn = "run"
  /\ pc = "finish"
  /\ effects' =
       Append(effects,
              IF FailsOnRisk(failOnRisk, results)
              THEN Effect("setFailed", "",
                          "Found " \o ToString(results.risk.highRiskCount)
                            \o " high-risk file(s). Review required.")
              ELSE Effect("info", "", "(check-mark) PR review completed successfully!"))
  /\ pc' = "done"
  /\ UNCHANGED <<fn, files, diff, options, returned, lastIndex, comments, results,
                 aiSummary, existingComment>>

NextRun ==
  \/ RunStart
  \/ RunFetch
  \/ RunAnalyze
  \/ RunAISummary
  \/ RunSetOutputs
  \/ FindExisting
  \/ UpdateExisting
  \/ CreateNew
  \/ RunFinish

SpecRun == InitRun /\ [][NextRun]_vars


(***************************************************************************)
(* postComment called on its own: a summary, a mode and a pull request     *)
(* that already has some comments.                                         *)
(***************************************************************************)
\* the largest number of comments on the pull request before the call
MaxComments == 2

\* bodies of earlier comments: of a reviewer, of an earlier run, none
CommentBodies == {Str("LGTM"), EarlierReview, Undefined}

\* the comment lists with the given bodies, ids in the order of creation
CommentLists ==
  {[k \in 1..Len(bodies) |-> Comment(k, bodies[k])] :
     bodies \in SeqsUpTo(CommentBodies, MaxComments)}

CommentOptions == [mode : {Undefined, Str("create"), Str("update"), Str("both")}]

\* the reports of the analyzers for a file list, as run() passes them on
ReportsFor(fileList, d) == Analyze(fileList, d, <<>>, <<>>, [name \in ModuleRegExps |-> 0]).reports

InitComment ==
  /\ fn = "postComment"
  /\ files \in {<<>>, <<ChangedFile("migrations/20240101_add_users.sql", "added", 50, 0),
                        ChangedFile("vendor/api/client.js", "added", 350, 0)>>}
  /\ diff \in RunDiffs
  /\ options \in CommentOptions
  /\ comments \in CommentLists
  /\ returned = <<>>
  /\ InitRegExps
  /\ pc = "post"
  /\ effects = <<>>
  /\ results = ReportsFor(files, diff)
  /\ aiSummary \in {Null, generateAISummary("ollama", "", "http://localhost:11434",
                                            "Adds a users table.").value}
  /\ existingComment = Undefined

NextComment == FindExisting \/ UpdateExisting \/ CreateNew

SpecComment == InitComment /\ [][NextComment]_vars

(***************************************************************************)
(* Properties of postComment.                                              *)
(***************************************************************************)
\* the step is a request of the given kind to the GitHub API
Requests(op) ==
  /\ Len(effects') = Len(effects) + 1
  /\ effects'[Len(effects')].op = op

\* the number of entries of the log with one of the given kinds
CountOf(log, ops) == Cardinality({k \in 1..Len(log) : log[k].op \in ops})

\* C14: in mode create every call of postComment creates a comment and
\* updates none; in modes update and both (and without a mode) the call
\* updates the first comment that carries the identifier, when there is
\* one, and creates none, and creates a comment when there is none; a call
\* that has returned has made exactly one create or update request.
C14_CommentModeFollowed ==
  [][fn = "postComment" =>
       LET found == findExistingComment(comments)
       IN /\ CurrentMode = "create" =>
               /\ ~Requests("updateComment") /\ ~Requests("listComments")
               /\ pc' = "done" => Requests("createComment")
          /\ CurrentMode \in {"update", "both"} /\ found # Undefined =>
               /\ ~Requests("createComment")
               /\ pc' = "done" =>
                    /\ Requests("updateComment")
                    /\ comments' = updateComment(comments, found.id, Body)
                    /\ returned' = <<[status |-> "returned",
                                      report |-> [action |-> "updated",
                                                  commentId |-> found.id]]>>
          /\ CurrentMode \in {"update", "both"} /\ found = Undefined =>
               /\ ~Requests("updateComment")
               /\ pc' = "done" =>
                    /\ Requests("createComment")
                    /\ comments' = Append(comments, Comment(Len(comments) + 1, Str(Body)))
          /\ pc' = "done" => CountOf(effects', {"createComment", "updateComment"}) = 1
    ]_vars

\* a call in mode both has updated the review comment of an earlier run and
\* the pull request has as many comments as before
C14_Witness ==
  /\ fn = "postComment"
  /\ pc = "done"
  /\ options.mode = Str("both")
  /\ returned = <<[status |-> "returned", report |-> [action |-> "updated", commentId |-> 2]]>>
  /\ Len(comments) = 2
  /\ comments[2].body = Str(Body)
  /\ comments[1].body = Str("LGTM")


(***************************************************************************)
(* Properties of a run.                                                    *)
(***************************************************************************)
\* the run is past the analyzers, which have all returned
AnalyzersReturned == fn = "run" /\ results # Null

\* the elements of a list
Range(list) == {list[k] : k \in 1..Len(list)}

\* the file names in the results of the four analyzers
NamesInResults(res) ==
  Range(res.coverage.testFilesAdded) \cup Range(res.coverage.testFilesModified)
    \cup Range(res.coverage.testFilesDeleted)
    \cup Range(res.coverage.sourceFilesWithoutTests)
    \cup Range(res.coverage.coverageFilesChanged)
    \cup NamesIn(res.risk.files)
    \cup Range(res.docs.docFilesAdded) \cup Range(res.docs.docFilesModified)
    \cup NamesIn(res.docs.missingDocs) \cup NamesIn(res.docs.triggersNeedingDocs)
    \cup NamesIn(res.complexity.warnings) \cup NamesIn(res.complexity.largeFiles)
    \cup NamesIn(res.complexity.complexFiles) \cup NamesIn(res.complexity.codeSmells)
    \cup NamesIn(res.complexity.stats.largestFile)

\* C12: no file whose name matches one of the ignore patterns of the run is
\* in a result of the coverage, risk, documentation or complexity analyzer.
C12_IgnoredSkippedByWholeRun ==
  AnalyzersReturned =>
    \A name \in NamesInResults(results) : ~MatchesIgnore(name, options.ignorePatterns)

\* the positions of the log with an entry of the given kind
Positions(log, op) == {k \in 1..Len(log) : log[k].op = op}

\* the action is marked failed
Failed == Positions(effects, "setFailed") # {}

\* a step of the run threw and the catch of run() marked the action failed
StepThrew == \E k \in Positions(effects, "setFailed") : effects[k].value = "Action failed: "

\* the run is on a pull request event and has ended
RunEnded == fn = "run" /\ pc = "done" /\ options.event = "pull_request"

\* C13: a run on a pull request in which no step threw ends failed exactly
\* when fail-on-risk is 'true' and the risk report has a high-risk file;
\* whenever the action is failed for risk, the five outputs are set and the
\* comment is created or updated before; with fail-on-risk not 'true' a run
\* in which no step threw never fails.
C13_FailsOnlyOnHighRiskAtEnd ==
  fn = "run" /\ ~StepThrew =>
    /\ RunEnded => (Failed <=> options.failOnRisk = "true" /\ results.risk.highRiskCount > 0)
    /\ \A k \in Positions(effects, "setFailed") :
          /\ Cardinality({j \in Positions(effects, "setOutput") : j < k}) = 5
          /\ \E j \in Positions(effects, "createComment")
                        \cup Positions(effects, "updateComment") : j < k
          /\ k = Len(effects)
    /\ options.failOnRisk # "true" => ~Failed

\* a run with fail-on-risk on a pull request that adds a migration has set
\* its outputs, updated the review comment and then failed
C13_Witness ==
  /\ RunEnded
  /\ options.failOnRisk = "true"
  /\ results # Null
  /\ results.risk.highRiskCount = 1
  /\ Positions(effects, "updateComment") # {}
  /\ effects[Len(effects)] =
       Effect("setFailed", "", "Found 1 high-risk file(s). Review required.")

\* C15: a run with enable-ai-summary 'true' and ai-provider 'ollama' that is
\* past its AI step has sent a request to the generate endpoint of the
\* Ollama url, whether or not there is an ai-api-key.
C15_OllamaRequestedWithoutKey ==
  /\ AnalyzersReturned
  /\ pc \notin {"analyze", "ai"}
  /\ options.enableAISummary = "true"
  /\ options.aiProvider = "ollama"
  => \E k \in Positions(effects, "request") :
        effects[k].name = ollamaUrl \o "/api/generate"


(***************************************************************************)
(* The details of the risk report.                                         *)
(***************************************************************************)
\* the categories of the findings of a report, all in the order in which
\* the loop comes to them
RECURSIVE CategoriesSeen(_, _)
CategoriesSeen(findings, i) ==
  IF i > Len(findings) THEN <<>>
  ELSE findings[i].categories \o CategoriesSeen(findings, i + 1)

\* the number of findings of a report that are in the category
FilesInCategory(r, category) ==
  Cardinality({i \in 1..Len(r.files) : category \in SeqToSet(r.files[i].categories)})

\* the line of a severity bucket, when its counter is not zero
BucketLine(count, icon, text) ==
  IF count > 0 THEN <<icon \o " " \o ToString(count) \o text>> ELSE <<>>

\* C21: the details of a risk report are the lines of the buckets high,
\* medium and low whose counter is not zero, in that order, followed by one
\* line for each category in the order in which the categories were first
\* inserted, whatever the category names are.
C21_DetailsInInsertionOrder ==
  \A r \in RiskReports :
     LET inserted == Dedupe(CategoriesSeen(r.files, 1))
     IN r.details =
          BucketLine(r.highRiskCount, "(rotating-light)", " high-risk file(s) require careful review")
            \o BucketLine(r.mediumRiskCount, "(warning)", " medium-risk file(s) detected")
            \o BucketLine(r.lowRiskCount, "(information)", " low-risk file(s) noted")
            \o [k \in 1..Len(inserted) |->
                  getCategoryIcon(inserted[k]) \o " " \o inserted[k] \o ": "
                    \o ToString(FilesInCategory(r, inserted[k])) \o " file(s)"]


(***************************************************************************)
(* The details of the complexity report.                                   *)
(***************************************************************************)
\* the sum of the count fields of the smell records of the type
RECURSIVE TotalOccurrences(_, _, _)
TotalOccurrences(codeSmells, type, k) ==
  IF k > Len(codeSmells) THEN 0
  ELSE (IF codeSmells[k].type = type THEN codeSmells[k].count ELSE 0)
         + TotalOccurrences(codeSmells, type, k + 1)

\* the details line of a smell type with the given number
SmellLine(type, n) ==
  getSmellIcon(type) \o " " \o ToString(n) \o " " \o type \o " code smell(s) detected"

\* the positions of the details that hold a line of the smell type
SmellLinesOf(r, type) ==
  {k \in 1..Len(r.details) :
     \E n \in 0..TotalOccurrences(r.codeSmells, type, 1) : r.details[k] = SmellLine(type, n)}

\* C22: the details of a complexity report have one line for each smell
\* type of its smell records, and the number on the line is the sum of the
\* occurrence counts of the records of that type.
C22_SmellLineShowsTotalOccurrences ==
  \A r \in ComplexityReports :
     \A type \in {r.codeSmells[k].type : k \in 1..Len(r.codeSmells)} :
        /\ Cardinality(SmellLinesOf(r, type)) = 1
        /\ \A k \in SmellLinesOf(r, type) :
              r.details[k] = SmellLine(type, TotalOccurrences(r.codeSmells, type, 1))


(***************************************************************************)
(* The stats of the complexity report.                                     *)
(***************************************************************************)
\* the entries of the file list that analyzeComplexity analyses
AnalysedEntries ==
  LET analysed(f) == Analysed(f.filename)
  IN SelectSeq(files, analysed)

\* the sum of the additions of the entries
RECURSIVE SumAdditions(_, _)
SumAdditions(entries, k) ==
  IF k > Len(entries) THEN 0 ELSE entries[k].additions + SumAdditions(entries, k + 1)

\* C23: averageFileSize is the rounded quotient of the additions of the
\* analysed files (not ignored, code) and their number, and largestFile is
\* an analysed file with the most additions among the analysed files; files
\* that are ignored or not code change neither.
C23_StatsOverAnalysedFilesOnly ==
  \A r \in ComplexityReports :
     LET analysed == AnalysedEntries
     IN Len(analysed) > 0 =>
          /\ r.stats.averageFileSize
               = RoundedQuotient(SumAdditions(analysed, 1), Len(analysed))
          /\ Len(r.stats.largestFile) = 1
          /\ \E k \in 1..Len(analysed) :
                /\ r.stats.largestFile[1].filename = analysed[k].filename
                /\ r.stats.largestFile[1].additions = analysed[k].additions
                /\ \A j \in 1..Len(analysed) : analysed[j].additions <= analysed[k].additions


(***************************************************************************)
(* The warnings about the added text of a file.                            *)
(***************************************************************************)
\* the number of warnings of the type about the file
WarningsOf(r, filename, type) ==
  Cardinality({k \in 1..Len(r.warnings) :
                 r.warnings[k].filename = filename /\ r.warnings[k].type = type})

\* the number of entries of the file list with the file name
EntriesNamed(filename) == Cardinality({i \in 1..Len(files) : files[i].filename = filename})

\* as many as the entries of the file when the condition holds, else none
OncePerEntry(condition, filename) == IF condition THEN EntriesNamed(filename) ELSE 0

\* C24: for an analysed file with added text, each entry of the file gives
\* one complexity warning and one complexFiles entry exactly when the
\* estimated complexity is above 10, one nesting warning exactly when
\* maxNesting is above 4 and one formatting warning exactly when some added
\* line has more than 150 characters; complexity warnings are high, nesting
\* warnings medium and formatting warnings low.
C24_ContentWarningsMatchThresholds ==
  \A r \in ComplexityReports :
     /\ \A i \in 1..Len(files) :
          LET name == files[i].filename
              text == AddedText(name)
              cr == analyzeFileComplexity(name, text, lastIndex)
              lines == Split(text, "\n")
          IN (Analysed(name) /\ text # "") =>
               /\ WarningsOf(r, name, "complexity") = OncePerEntry(cr.complexity > 10, name)
               /\ Cardinality(EntriesFor(r.complexFiles, name))
                    = OncePerEntry(cr.complexity > 10, name)
               /\ WarningsOf(r, name, "nesting") = OncePerEntry(cr.maxNesting > 4, name)
               /\ WarningsOf(r, name, "formatting")
                    = OncePerEntry(\E k \in 1..Len(lines) : Len(lines[k]) > 150, name)
     /\ \A k \in 1..Len(r.warnings) :
          /\ r.warnings[k].type = "complexity" => r.warnings[k].severity = "high"
          /\ r.warnings[k].type = "nesting" => r.warnings[k].severity = "medium"
          /\ r.warnings[k].type = "formatting" => r.warnings[k].severity = "low"
          /\ r.warnings[k].type \in {"complexity", "nesting", "formatting", "size"}

\* a report about one file whose added text has a line of 151 characters and
\* nesting 6 but few branches: a nesting and a formatting warning, no
\* complexity warning
C24_Witness ==
  /\ fn = "analyzeComplexity"
  /\ Len(files) = 1
  /\ \E r \in ComplexityReports :
        /\ WarningsOf(r, files[1].filename, "nesting") = 1
        /\ WarningsOf(r, files[1].filename, "formatting") = 1
        /\ WarningsOf(r, files[1].filename, "complexity") = 0
        /\ analyzeFileComplexity(files[1].filename, AddedText(files[1].filename),
                                 lastIndex).longLines = 1


(***************************************************************************)
(* The nesting scan.                                                       *)
(***************************************************************************)
\* the scan of a brace-based file as the specification describes it: only
\* lines with { or } change the depth
RECURSIVE BraceOnlyScan(_, _, _, _)
BraceOnlyScan(lines, k, currentNesting, maxNesting) ==
  IF k > Len(lines) THEN maxNesting
  ELSE LET opens == Includes(lines[k], "{")
           opened == IF opens THEN currentNesting + 1 ELSE currentNesting
       IN BraceOnlyScan(lines, k + 1,
                        IF Includes(lines[k], "}") THEN Max(0, opened - 1) ELSE opened,
                        Max(maxNesting, opened))

\* C25: for a file that is not a Python file, lines that end in a colon do
\* not change the depth: maxNesting is what the scan gives when only lines
\* with { or } count.
C25_ColonCountsOnlyForPython ==
  \A r \in ComplexityReports : \A i \in 1..Len(files) :
     LET name == files[i].filename
         text == AddedText(name)
     IN (Analysed(name) /\ text # "" /\ LangOfFile(name) # "py") =>
          analyzeFileComplexity(name, text, lastIndex).maxNesting
            = BraceOnlyScan(Split(text, "\n"), 1, 0, 0)


\* the line of a report without findings
PositiveLine == "(check) No significant complexity issues detected"

\* C26: the details of a complexity report have the positive line exactly
\* when the report has no warnings and no code smells, and then the details
\* are that line alone.
C26_PositiveLineIffNoFindings ==
  \A r \in ComplexityReports :
     /\ (\E k \in 1..Len(r.details) : r.details[k] = PositiveLine)
          <=> (Len(r.warnings) = 0 /\ Len(r.codeSmells) = 0)
     /\ (Len(r.warnings) = 0 /\ Len(r.codeSmells) = 0) => r.details = <<PositiveLine>>

\* a report about an analysed file with added text and nothing to report
C26_Witness ==
  /\ fn = "analyzeComplexity"
  /\ \E i \in 1..Len(files) :
        Analysed(files[i].filename) /\ AddedText(files[i].filename) # ""
  /\ \E r \in ComplexityReports : r.details = <<PositiveLine>>


(***************************************************************************)
(* analyzeFileComplexity(filename, content) called on its own, the nesting *)
(* loop one line at a time: files holds the file, diff the content, and    *)
(* results the loop variables (the index of the next line, currentNesting  *)
(* and maxNesting).                                                        *)
(***************************************************************************)
\* the largest number of lines of a content
MaxLines == 3

\* lines that open, close, open by a colon, dedent, do both, do nothing
LinePool == {"{", "}", "if x:", "return", "} else {", "x()"}

ScanContents == {Join(lines, "\n") : lines \in SeqsUpTo(LinePool, MaxLines)}

\* the lines of the content being scanned
ScannedLines == Split(diff.s, "\n")

InitNesting ==
  /\ fn = "analyzeFileComplexity"
  /\ files \in {<<ChangedFile(name, "modified", 1, 0)>> : name \in {"src/app.js", "src/api.py"}}
  /\ diff \in {Str(content) : content \in ScanContents}
  /\ options = [ignorePatterns |-> <<>>]
  /\ returned = <<>>
  /\ InitRegExps
  /\ pc = "scan"
  /\ comments = <<>>
  /\ effects = <<>>
  /\ results = [t |-> "scan", k |-> 1, currentNesting |-> 0, maxNesting |-> 0]
  /\ aiSummary = Null
  /\ existingComment = Undefined

\* one pass of 'for (const line of lines)'
ScanLine ==
  /\ fn = "analyzeFileComplexity"
  /\ pc = "scan"
  /\ results.k <= Len(ScannedLines)
  /\ \E after \in {NestingStep(results.currentNesting, results.maxNesting,
                               OpensBlock(Trim(ScannedLines[results.k])),
                               ClosesBlock(LangOfFile(files[1].filename),
                                           Trim(ScannedLines[results.k])))} :
        results' = [t |-> "scan", k |-> results.k + 1,
                    currentNesting |-> after.currentNesting,
                    maxNesting |-> after.maxNesting]
  /\ UNCHANGED <<fn, files, diff, options, returned, lastIndex, pc, comments, effects,
                 aiSummary, existingComment>>

\* the long lines are counted and the estimate is returned
ReturnEstimate ==
  /\ fn = "analyzeFileComplexity"
  /\ pc = "scan"
  /\ results.k > Len(ScannedLines)
  /\ \E matched \in {StringMatch(diff.s, CONTROL_FLOW_PATTERNS[LangOfFile(files[1].filename)],
                                 lastIndex[CONTROL_FLOW_PATTERNS[LangOfFile(files[1].filename)].name])} :
        /\ returned' = <<[status |-> "returned",
                          report |-> [complexity |-> Len(matched.matches) + 1,
                                      maxNesting |-> results.maxNesting,
                                      longLines |-> Len(SelectSeq(ScannedLines, IsLongLine))]]>>
        /\ lastIndex' = [lastIndex EXCEPT
                           ![CONTROL_FLOW_PATTERNS[LangOfFile(files[1].filename)].name] =
                              matched.lastIndex]
  /\ pc' = "done"
  /\ UNCHANGED <<fn, files, diff, options, comments, effects, results, aiSummary,
                 existingComment>>

NextNesting == ScanLine \/ ReturnEstimate

SpecNesting == InitNesting /\ [][NextNesting]_vars

\* C27: at every step of the nesting scan the depth is between 0 and
\* maxNesting, and maxNesting does not decrease from one step to the next;
\* the estimate returned has complexity at least 1, maxNesting and longLines
\* at least 0, and its maxNesting is the one analyzeFileComplexity gives.
C27_DepthWithinBounds ==
  /\ [](fn = "analyzeFileComplexity" =>
          /\ 0 <= results.currentNesting
          /\ results.currentNesting <= results.maxNesting
          /\ \A k \in 1..Len(returned) :
                /\ returned[k].report.complexity >= 1
                /\ returned[k].report.maxNesting >= 0
                /\ returned[k].report.longLines >= 0
                /\ returned[k].report.maxNesting
                     = analyzeFileComplexity(files[1].filename, diff.s,
                                             [name \in ModuleRegExps |-> 0]).maxNesting)
  /\ [][fn = "analyzeFileComplexity" => results'.maxNesting >= results.maxNesting]_vars

\* the scan of two closing lines followed by an opening line is over: the
\* depth is 1 and so is maxNesting
C27_Witness ==
  /\ fn = "analyzeFileComplexity"
  /\ pc = "done"
  /\ diff = Str("}\n}\n{")
  /\ results.currentNesting = 1
  /\ returned[1].report.maxNesting = 1
  /\ returned[1].report.complexity = 1


(***************************************************************************)
(* Runs of the action on the same pull request that may overlap in time:   *)
(* each run is at its own position of postComment and has its own          *)
(* existingComment (pc and existingComment are functions of the run); the  *)
(* comments of the pull request are shared.                                *)
(***************************************************************************)
\* the runs that may be under way at the same time
Runners == {1, 2}

\* the largest number of runs started
MaxRuns == 3

\* a pull request on which reviewers have written a full page of comments
FullPage == [k \in 1..PerPage |-> Comment(k, Str("LGTM"))]

InitOverlap ==
  /\ fn = "runs"
  /\ files = <<ChangedFile("src/app.js", "modified", 300, 0)>>
  /\ diff = Undefined
  /\ options \in {[mode |-> Undefined], [mode |-> Str("update")]}
  /\ comments \in {<<>>, <<Comment(1, EarlierReview)>>, FullPage}
  /\ returned = <<>>
  /\ InitRegExps
  /\ pc = [p \in Runners |-> "idle"]
  /\ effects = <<>>
  /\ results = ReportsFor(files, diff)
  /\ aiSummary = Null
  /\ existingComment = [p \in Runners |-> Undefined]

\* a run comes to its call of postComment
StartRun(p) ==
  /\ pc[p] \in {"idle", "done"}
  /\ CountOf(effects, {"run"}) < MaxRuns
  /\ pc' = [pc EXCEPT ![p] = "post"]
  /\ effects' = Append(effects, Effect("run", ToString(p), ""))
  /\ UNCHANGED <<fn, files, diff, options, returned, lastIndex, comments, results,
                 aiSummary, existingComment>>

\* the run asks for the comments and looks for its own among them
FindExistingOf(p) ==
  /\ pc[p] = "post"
  /\ LooksForExisting(ModeOf(options))
  /\ existingComment' = [existingComment EXCEPT ![p] = findExistingComment(comments)]
  /\ effects' = Append(effects, Effect("listComments", "per_page", ToString(PerPage)))
  /\ pc' = [pc EXCEPT ![p] = "found"]
  /\ UNCHANGED <<fn, files, diff, options, returned, lastIndex, comments, results, aiSummary>>

\* the run updates the comment it has found
UpdateExistingOf(p) ==
  /\ pc[p] = "found"
  /\ existingComment[p] # Undefined
  /\ \E body \in {Body} :
        /\ comments' = updateComment(comments, existingComment[p].id, body)
        /\ effects' = Append(effects, Effect("updateComment",
                                             ToString(existingComment[p].id), ToString(p)))
  /\ pc' = [pc EXCEPT ![p] = "done"]
  /\ UNCHANGED <<fn, files, diff, options, returned, lastIndex, results, aiSummary,
                 existingComment>>

\* the run has found no comment of its own and creates one
CreateNewOf(p) ==
  /\ pc[p] = "found"
  /\ existingComment[p] = Undefined
  /\ \E body \in {Body} :
        /\ comments' = createComment(comments, body)
        /\ effects' = Append(effects, Effect("createComment",
                                             ToString(NewCommentId(comments)), ToString(p)))
  /\ pc' = [pc EXCEPT ![p] = "done"]
  /\ UNCHANGED <<fn, files, diff, options, returned, lastIndex, results, aiSummary,
                 existingComment>>

NextOverlap ==
  \E p \in Runners :
     \/ StartRun(p)
     \/ FindExistingOf(p)
     \/ UpdateExistingOf(p)
     \/ CreateNewOf(p)

SpecOverlap == InitOverlap /\ [][NextOverlap]_vars

\* the comments of the pull request that carry the identifier
OwnComments == {k \in 1..Len(comments) : CarriesIdentifier(comments[k])}

\* C28: in mode update, whatever runs have been made on the pull request,
\* one after the other or overlapping, and however many comments it has, at
\* most one of its comments carries the identifier.
C28_AtMostOneOwnComment ==
  fn = "runs" => Cardinality(OwnComments) <= 1


\* the run has called generateAISummary (the info line before the call)
AICalled ==
  \E k \in Positions(effects, "info") : effects[k].value = "(robot) Generating AI summary..."

\* the positions of the warnings about a failed AI summary
AIWarnings ==
  {k \in Positions(effects, "warning") : StartsWith(effects[k].value, "AI summary failed: ")}

\* the run is past its AI step
PastAIStep == fn = "run" /\ pc \in {"outputs", "post", "found", "finish", "done"}

\* the bodies of the comments the run has created or updated
PostedBodies ==
  {effects[k].value :
     k \in Positions(effects, "createComment") \cup Positions(effects, "updateComment")}

\* C29: a run whose call of generateAISummary has failed has logged one
\* warning about it and has no AI summary; it goes on: once it has ended,
\* the five outputs are set and the comment is posted after the warning,
\* the comment has no AI section, and the action is marked failed only for
\* high-risk files with fail-on-risk.
C29_AIFailureOnlyWarns ==
  (PastAIStep /\ results # Null /\ AICalled /\ aiSummary = Null) =>
    /\ Cardinality(AIWarnings) = 1
    /\ pc = "done" =>
         /\ \A w \in AIWarnings :
               /\ Cardinality({k \in Positions(effects, "setOutput") : k > w}) = 5
               /\ \E k \in Positions(effects, "createComment")
                             \cup Positions(effects, "updateComment") : k > w
         /\ \A body \in PostedBodies : ~Includes(body, "## (robot) AI Analysis")
         /\ ~StepThrew
         /\ Failed => FailsOnRisk(failOnRisk, results)

\* a run with an unknown AI provider has ended: it has logged the warning,
\* created its comment and is not failed
C29_Witness ==
  /\ RunEnded
  /\ \E w \in AIWarnings :
        effects[w].value = "AI summary failed: Unknown AI provider: gemini"
  /\ Positions(effects, "createComment") # {}
  /\ Cardinality(Positions(effects, "setOutput")) = 5
  /\ ~Failed


\* the effects of the kinds that fetch, set outputs or post
WorkDone ==
  Positions(effects, "listFiles") \cup Positions(effects, "pulls.get")
    \cup Positions(effects, "listComments") \cup Positions(effects, "request")
    \cup Positions(effects, "setOutput") \cup Positions(effects, "createComment")
    \cup Positions(effects, "updateComment")

\* the run was started by an event without a pull request
NoPullRequest == fn = "run" /\ options.event # "pull_request"

\* the comment of a run is created or updated at most once, and only when
\* the four analyzers have returned their reports
PostedOnceAfterAnalyzers ==
  fn = "run" =>
    /\ Cardinality(Positions(effects, "createComment")
                     \cup Positions(effects, "updateComment")) <= 1
    /\ Positions(effects, "createComment") \cup Positions(effects, "updateComment") # {}
         => results # Null

====
